---- MODULE Spec2Model ----
(***************************************************************************)
(* Model of the math tools of backend/tools/math_tools:                    *)
(*   numpy_solver.py  (numeric solve, linear system, ODE)                  *)
(*   sympy_solver.py  (symbolic solve, system, differentiate, integrate)   *)
(*   plotter.py       (function plot)                                      *)
(* Text is a sequence of one-character strings; the regular expressions of *)
(* the source are operators that scan such sequences as Python's re does.  *)
(***************************************************************************)
EXTENDS Integers, Sequences, FiniteSets, TLC

VARIABLES
    tool,       \* which script runs: "numpy_solver", "sympy_solver", "plotter"
    argv,       \* sys.argv[1:]: <<>> or <<payload>>
    data,       \* json.loads(sys.argv[1]) when it is a JSON object
    pc,         \* position in the script
    equation,   \* local `equation` of the single-equation solvers
    variables,  \* local `variables` of the system solvers
    A,          \* coefficient rows built so far
    b,          \* constants built so far
    solution,   \* the solved values, by position
    steps,      \* local `steps`: the narration, one tag per entry
    solutions,  \* local `solutions` of the single-equation solvers
    attempt,    \* loop index (seed, bracket, equation, Euler step, function)
    sol,        \* local `sol` of the numeric solve, with what f evaluates to there
    result,     \* the response object the operation returned
    stdout,     \* the JSON object printed
    exitStatus, \* process exit status, -1 while running
    text,       \* preprocessing harness: current text
    prev,       \* preprocessing harness: text before the last pass
    src,        \* preprocessing harness: the raw text
    passes,     \* preprocessing harness: preprocess_equation applications
    echoed,     \* preprocessing harness: text is a solver's echoed expression
    expr,       \* narration harness: the parsed expression handed over
    narration   \* narration harness: what generate_equation_steps returned

vars == <<tool, argv, data, pc, equation, variables, A, b, solution, steps,
          solutions, attempt, sol, result, stdout, exitStatus,
          text, prev, src, passes, echoed, expr, narration>>

progVars == <<tool, argv, data, pc, equation, variables, A, b, solution, steps,
              solutions, attempt, sol, result, stdout, exitStatus>>

\* `sol` before any root search has returned
NoSol == [value |-> 0, is_zero |-> FALSE]

preVars == <<text, prev, src, passes, echoed>>

stepVars == <<expr, narration>>

\* what the scripts themselves never touch
harnessVars == <<preVars, stepVars>>

----
(* Characters *)

DigitChars == {"0", "1", "2", "3", "4", "5", "6", "7", "8", "9"}

LetterChars ==
    {"a", "b", "c", "d", "e", "f", "g", "h", "i", "j", "k", "l", "m",
     "n", "o", "p", "q", "r", "s", "t", "u", "v", "w", "x", "y", "z",
     "A", "B", "C", "D", "E", "F", "G", "H", "I", "J", "K", "L", "M",
     "N", "O", "P", "Q", "R", "S", "T", "U", "V", "W", "X", "Y", "Z"}

SpaceChars == {" "}

\* \w of Python's re
WordChars == DigitChars \cup LetterChars \cup {"_"}

IsDigit(c) == c \in DigitChars
IsLetter(c) == c \in LetterChars
IsSpace(c) == c \in SpaceChars

\* s[i..j] (1-based, inclusive); empty when j < i
Slice(s, i, j) == IF j < i THEN <<>> ELSE SubSeq(s, i, j)

\* index of the first occurrence of character c in s at or after i, 0 if none
RECURSIVE Find(_, _, _)
Find(s, c, i) ==
    IF i > Len(s) THEN 0
    ELSE IF s[i] = c THEN i
    ELSE Find(s, c, i + 1)

Contains(s, c) == Find(s, c, 1) # 0

\* str.strip()
RECURSIVE LStrip(_)
LStrip(s) == IF s # <<>> /\ IsSpace(Head(s)) THEN LStrip(Tail(s)) ELSE s

RECURSIVE RStrip(_)
RStrip(s) ==
    IF s # <<>> /\ IsSpace(s[Len(s)]) THEN RStrip(SubSeq(s, 1, Len(s) - 1)) ELSE s

Strip(s) == RStrip(LStrip(s))

----
(* preprocess_equation *)

\* equation.replace('^', '**')
RECURSIVE ReplaceCaret(_)
ReplaceCaret(s) ==
    IF s = <<>> THEN <<>>
    ELSE IF Head(s) = "^" THEN <<"*", "*">> \o ReplaceCaret(Tail(s))
    ELSE <<Head(s)>> \o ReplaceCaret(Tail(s))

\* re.sub(r'(\d)([a-zA-Z])', r'\1*\2', s): leftmost non-overlapping matches
RECURSIVE SubDigitLetter(_)
SubDigitLetter(s) ==
    IF s = <<>> THEN <<>>
    ELSE IF Len(s) >= 2 /\ IsDigit(s[1]) /\ IsLetter(s[2])
         THEN <<s[1], "*", s[2]>> \o SubDigitLetter(Slice(s, 3, Len(s)))
    ELSE <<Head(s)>> \o SubDigitLetter(Tail(s))

\* the same substitution with the second group not restricted to letters
RECURSIVE SubDigitAny(_)
SubDigitAny(s) ==
    IF s = <<>> THEN <<>>
    ELSE IF Len(s) >= 2 /\ IsDigit(s[1]) /\ ~IsDigit(s[2]) /\ ~IsSpace(s[2])
         THEN <<s[1], "*", s[2]>> \o SubDigitAny(Slice(s, 3, Len(s)))
    ELSE <<Head(s)>> \o SubDigitAny(Tail(s))

\* re.sub(r'\)(\()', r')*\1', s)
RECURSIVE SubParens(_)
SubParens(s) ==
    IF s = <<>> THEN <<>>
    ELSE IF Len(s) >= 2 /\ s[1] = ")" /\ s[2] = "("
         THEN <<")", "*", "(">> \o SubParens(Slice(s, 3, Len(s)))
    ELSE <<Head(s)>> \o SubParens(Tail(s))

preprocess_equation_anychar(eq) == SubParens(SubDigitAny(ReplaceCaret(eq)))

preprocess_equation(eq) == SubParens(SubDigitLetter(ReplaceCaret(eq)))

\* equation.split('=', 1) followed by strip and preprocess of both sides, as the
\* single-equation solvers do: "(L) - (R)", or the preprocessed text without '='
StandardizeEquation(eq) ==
    IF Contains(eq, "=")
    THEN LET k == Find(eq, "=", 1)
             left == preprocess_equation(Strip(Slice(eq, 1, k - 1)))
             right == preprocess_equation(Strip(Slice(eq, k + 1, Len(eq))))
         IN <<"(">> \o left \o <<")", " ", "-", " ", "(">> \o right \o <<")">>
    ELSE preprocess_equation(eq)

----
(* Scanning helpers shared by the regular expressions and the parser *)

\* the character at i, or "" past the end
At(s, i) == IF i >= 1 /\ i <= Len(s) THEN s[i] ELSE ""

RECURSIVE SkipSp(_, _)
SkipSp(s, i) == IF IsSpace(At(s, i)) THEN SkipSp(s, i + 1) ELSE i

RECURSIVE SkipDigits(_, _)
SkipDigits(s, i) == IF IsDigit(At(s, i)) THEN SkipDigits(s, i + 1) ELSE i

RECURSIVE SkipLetters(_, _)
SkipLetters(s, i) == IF IsLetter(At(s, i)) THEN SkipLetters(s, i + 1) ELSE i

RECURSIVE SkipWord(_, _)
SkipWord(s, i) == IF At(s, i) \in WordChars THEN SkipWord(s, i + 1) ELSE i

DigitVal(c) ==
    CASE c = "0" -> 0 [] c = "1" -> 1 [] c = "2" -> 2 [] c = "3" -> 3
      [] c = "4" -> 4 [] c = "5" -> 5 [] c = "6" -> 6 [] c = "7" -> 7
      [] c = "8" -> 8 [] c = "9" -> 9

\* value of a run of digits; 0 for the empty run
RECURSIVE DigitsVal(_)
DigitsVal(ds) ==
    IF ds = <<>> THEN 0
    ELSE 10 * DigitsVal(SubSeq(ds, 1, Len(ds) - 1)) + DigitVal(ds[Len(ds)])

\* lexicographic order on text, as Python compares str (by code point)
CodePoint(c) ==
    CASE c \in DigitChars -> 48 + DigitVal(c)
      [] c \in LetterChars ->
           LET upper == <<"A", "B", "C", "D", "E", "F", "G", "H", "I", "J", "K",
                          "L", "M", "N", "O", "P", "Q", "R", "S", "T", "U", "V",
                          "W", "X", "Y", "Z">>
               lower == <<"a", "b", "c", "d", "e", "f", "g", "h", "i", "j", "k",
                          "l", "m", "n", "o", "p", "q", "r", "s", "t", "u", "v",
                          "w", "x", "y", "z">>
           IN IF \E k \in 1..26 : upper[k] = c
              THEN 64 + (CHOOSE k \in 1..26 : upper[k] = c)
              ELSE 96 + (CHOOSE k \in 1..26 : lower[k] = c)
      [] OTHER -> 0

RECURSIVE StrLess(_, _)
StrLess(s, t) ==
    IF t = <<>> THEN FALSE
    ELSE IF s = <<>> THEN TRUE
    ELSE IF Head(s) = Head(t) THEN StrLess(Tail(s), Tail(t))
    ELSE CodePoint(Head(s)) < CodePoint(Head(t))

\* sorted(list(S)) for a set of texts
RECURSIVE SortedStrings(_)
SortedStrings(S) ==
    IF S = {} THEN <<>>
    ELSE LET m == CHOOSE x \in S : \A y \in S \ {x} : StrLess(x, y)
         IN <<m>> \o SortedStrings(S \ {m})

\* the same values, largest first
RECURSIVE SortedIntsDescending(_)
SortedIntsDescending(S) ==
    IF S = {} THEN <<>>
    ELSE LET m == CHOOSE x \in S : \A y \in S : x >= y
         IN <<m>> \o SortedIntsDescending(S \ {m})

\* sorted(list(set(xs))) for a list of integers
RECURSIVE SortedInts(_)
SortedInts(S) ==
    IF S = {} THEN <<>>
    ELSE LET m == CHOOSE x \in S : \A y \in S : x <= y
         IN <<m>> \o SortedInts(S \ {m})

Range(seq) == {seq[i] : i \in 1..Len(seq)}

----
(* Number text: Python's float() on what the patterns can capture *)

FracDigits == 1
Scale == 10 ^ FracDigits

\* float(m) raises ValueError unless m is [sign] digits [. digits] or [sign] . digits
FloatOK(m) ==
    LET i0 == IF At(m, 1) \in {"+", "-"} THEN 2 ELSE 1
        i1 == SkipDigits(m, i0)
        i2 == IF At(m, i1) = "." THEN i1 + 1 ELSE i1
        i3 == SkipDigits(m, i2)
    IN /\ i3 = Len(m) + 1
       /\ (i1 > i0 \/ i3 > i2)

\* float(m) in units of 1/Scale (fraction digits past FracDigits are dropped)
FloatVal(m) ==
    LET i0 == IF At(m, 1) \in {"+", "-"} THEN 2 ELSE 1
        i1 == SkipDigits(m, i0)
        i2 == IF At(m, i1) = "." THEN i1 + 1 ELSE i1
        i3 == SkipDigits(m, i2)
        frac == Slice(m, i2, i3 - 1)
        kept == IF Len(frac) > FracDigits THEN SubSeq(frac, 1, FracDigits) ELSE frac
        mag == DigitsVal(Slice(m, i0, i1 - 1)) * Scale
               + DigitsVal(kept) * (10 ^ (FracDigits - Len(kept)))
    IN IF At(m, 1) = "-" THEN 0 - mag ELSE mag

----
(* Linear-system extraction: the patterns of solve_linear_system_numeric *)

\* set(re.findall(r'[a-zA-Z]+', eq)): the maximal runs of letters
RECURSIVE LetterRuns(_, _)
LetterRuns(s, i) ==
    IF i > Len(s) THEN {}
    ELSE IF IsLetter(s[i])
         THEN LET j == SkipLetters(s, i)
              IN {Slice(s, i, j - 1)} \cup LetterRuns(s, j)
    ELSE LetterRuns(s, i + 1)

\* {'sin', 'cos', 'tan', 'log', 'exp', 'sqrt', 'pi'}
common_funcs ==
    {<<"s", "i", "n">>, <<"c", "o", "s">>, <<"t", "a", "n">>, <<"l", "o", "g">>,
     <<"e", "x", "p">>, <<"s", "q", "r", "t">>, <<"p", "i">>}

\* the inferred variable list: sorted(list(all_vars - common_funcs))
InferVariables(equations) ==
    SortedStrings(UNION {LetterRuns(equations[k], 1) : k \in 1..Len(equations)}
                  \ common_funcs)

\* `variables` after the `if not variables:` block
ResolveVariables(equations, given) ==
    IF given = <<>> THEN InferVariables(equations) ELSE given

\* one attempt of r'([-+]?\s*\d*\.?\d*)\s*\*?\s*{var}\b' at position i:
\* every quantifier is greedy, and giving characters back never helps, since
\* the tail of the pattern can only take blanks and one '*'
CoeffMatchAt(s, var, i) ==
    LET j1 == IF At(s, i) \in {"+", "-"} THEN i + 1 ELSE i
        j2 == SkipSp(s, j1)
        j3 == SkipDigits(s, j2)
        j4 == IF At(s, j3) = "." THEN j3 + 1 ELSE j3
        j5 == SkipDigits(s, j4)
        j6 == SkipSp(s, j5)
        j7 == IF At(s, j6) = "*" THEN j6 + 1 ELSE j6
        j8 == SkipSp(s, j7)
        e == j8 + Len(var)
    IN [ok |-> /\ e - 1 <= Len(s)
               /\ Slice(s, j8, e - 1) = var
               /\ At(s, e) \notin WordChars,
        group |-> Slice(s, i, j5 - 1),
        end |-> e]

\* re.findall(pattern, s): the captured groups of the leftmost non-overlapping matches
RECURSIVE CoeffFindAll(_, _, _)
CoeffFindAll(s, var, i) ==
    IF i > Len(s) THEN <<>>
    ELSE LET m == CoeffMatchAt(s, var, i)
         IN IF m.ok THEN <<m.group>> \o CoeffFindAll(s, var, m.end)
            ELSE CoeffFindAll(s, var, i + 1)

\* match.strip(), then '+', '-' and '' get a '1' appended
CoeffText(match) ==
    LET m == Strip(match)
    IN IF m \in {<<"+">>, <<"-">>, <<>>} THEN Append(m, "1") ELSE m

\* the texts float() is called on for one side and one variable
CoeffTexts(side, var) ==
    LET ms == CoeffFindAll(side, var, 1)
    IN [k \in 1..Len(ms) |-> CoeffText(ms[k])]

RECURSIVE SumFloats(_)
SumFloats(ts) == IF ts = <<>> THEN 0 ELSE FloatVal(Head(ts)) + SumFloats(Tail(ts))

\* re.search(r'([-+]?\s*\d+\.?\d*)\s*(?![a-zA-Z])', s) tried at position i.
\* \d+ must take a digit; the lookahead fails only on a letter, and then the
\* engine gives back the last character of the number (a digit or the dot)
ConstMatchAt(s, i) ==
    LET j1 == IF At(s, i) \in {"+", "-"} THEN i + 1 ELSE i
        j2 == SkipSp(s, j1)
        j3 == SkipDigits(s, j2)
        dot == At(s, j3) = "."
        j4 == IF dot THEN j3 + 1 ELSE j3
        j5 == SkipDigits(s, j4)
        j6 == SkipSp(s, j5)
        letterNext == IsLetter(At(s, j6))
        short == IF dot THEN (IF j5 > j4 THEN j5 - 1 ELSE j3) ELSE j3 - 1
    IN IF j3 = j2 THEN [ok |-> FALSE, group |-> <<>>]
       ELSE IF ~letterNext \/ j6 > j5 THEN [ok |-> TRUE, group |-> Slice(s, i, j5 - 1)]
       ELSE IF short > j2 THEN [ok |-> TRUE, group |-> Slice(s, i, short - 1)]
       ELSE [ok |-> FALSE, group |-> <<>>]

RECURSIVE ConstSearch(_, _)
ConstSearch(s, i) ==
    IF i > Len(s) THEN [ok |-> FALSE, group |-> <<>>]
    ELSE LET m == ConstMatchAt(s, i)
         IN IF m.ok THEN m ELSE ConstSearch(s, i + 1)

\* float(x) accepts surrounding blanks
PyFloatOK(m) == FloatOK(Strip(m))
PyFloatVal(m) == FloatVal(Strip(m))

\* the first side whose extraction raises ValueError, if any: every float() call
\* of lines 159-182 on this equation, in the order the code makes them
RowFloatTexts(left, right, vs) ==
    LET perVar(i) == CoeffTexts(left, vs[i]) \o CoeffTexts(right, vs[i])
        coeffs[i \in 0..Len(vs)] == IF i = 0 THEN <<>> ELSE coeffs[i - 1] \o perVar(i)
        lc == ConstSearch(left, 1)
        rc == ConstSearch(right, 1)
    IN coeffs[Len(vs)]
       \o (IF lc.ok THEN <<lc.group>> ELSE <<>>)
       \o (IF rc.ok THEN <<rc.group>> ELSE <<>>)

\* left and right of one equation of the system, preprocessed (lines 141-150)
SystemSides(eq) ==
    IF Contains(eq, "=")
    THEN LET k == Find(eq, "=", 1)
         IN [left |-> preprocess_equation(Strip(Slice(eq, 1, k - 1))),
             right |-> preprocess_equation(Strip(Slice(eq, k + 1, Len(eq))))]
    ELSE [left |-> preprocess_equation(eq), right |-> preprocess_equation(<<"0">>)]

\* does extracting this equation raise (a float() call fails)?
RowRaises(eq, vs) ==
    LET sd == SystemSides(eq)
        ts == RowFloatTexts(sd.left, sd.right, vs)
    IN \E k \in 1..Len(ts) : ~PyFloatOK(ts[k])

\* coeffs[i]: matches on the left added, matches on the right subtracted
RowCoeff(eq, var) ==
    LET sd == SystemSides(eq)
    IN SumFloats(CoeffTexts(sd.left, var)) - SumFloats(CoeffTexts(sd.right, var))

\* the row built against the variables in reverse position
RowCoeffsReversed(eq, vs) ==
    [i \in 1..Len(vs) |-> RowCoeff(eq, vs[Len(vs) + 1 - i])]

RowCoeffs(eq, vs) == [i \in 1..Len(vs) |-> RowCoeff(eq, vs[i])]

\* const = right_const - left_const, each the first numeric literal of its side
RowConst(eq) ==
    LET sd == SystemSides(eq)
        lc == ConstSearch(sd.left, 1)
        rc == ConstSearch(sd.right, 1)
        left_const == IF lc.ok THEN PyFloatVal(lc.group) ELSE 0
        right_const == IF rc.ok THEN PyFloatVal(rc.group) ELSE 0
    IN right_const - left_const

----
(* np.linalg.solve: the solved values by exact arithmetic, the singularity    *)
(* test as the LU factorisation in floating point makes it                    *)

Abs(n) == IF n < 0 THEN 0 - n ELSE n

RECURSIVE Gcd(_, _)
Gcd(m, n) == IF n = 0 THEN Abs(m) ELSE Gcd(n, m % Abs(n))

RemoveAt(seq, j) == [k \in 1..(Len(seq) - 1) |-> IF k < j THEN seq[k] ELSE seq[k + 1]]

\* M without its first row and its j-th column
Minor(M, j) == [r \in 1..(Len(M) - 1) |-> RemoveAt(M[r + 1], j)]

RECURSIVE Det(_)
Det(M) ==
    IF Len(M) = 0 THEN 1
    ELSE LET term[j \in 0..Len(M)] ==
                 IF j = 0 THEN 0
                 ELSE term[j - 1]
                      + (IF j % 2 = 1 THEN 1 ELSE -1) * M[1][j] * Det(Minor(M, j))
         IN term[Len(M)]

IsSquare(M) == \A r \in 1..Len(M) : Len(M[r]) = Len(M)

RECURSIVE IsPowerOfTwo(_)
IsPowerOfTwo(n) == n = 1 \/ (n > 1 /\ n % 2 = 0 /\ IsPowerOfTwo(n \div 2))

\* n / d is a binary fraction: the quotient floating point holds without rounding
ExactQuotient(n, d) == n = 0 \/ (d # 0 /\ IsPowerOfTwo(Abs(d) \div Gcd(n, d)))

\* The elimination inside np.linalg.solve runs without rounding: whole-number
\* entries and, at order 2, a multiplier (other row's lead over the pivot, the
\* larger lead in magnitude) that is a binary fraction or meets a zero.  Orders
\* above 2 are not followed and count as rounded.
ExactElimination(M) ==
    /\ \A r \in 1..Len(M) : \A c \in 1..Len(M[r]) : M[r][c] % Scale = 0
    /\ \/ Len(M) < 2
       \/ /\ Len(M) = 2
          /\ LET p == IF Abs(M[2][1]) > Abs(M[1][1]) THEN 2 ELSE 1
                 q == 3 - p
             IN M[p][2] = 0 \/ ExactQuotient(M[q][1], M[p][1])

\* Whether np.linalg.solve raises LinAlgError, as the set of possible answers.
\* "Last 2 dimensions of the array must be square" is raised for every
\* non-square matrix.  "Singular matrix" is raised when the factorisation ends
\* on a pivot that is exactly zero: never for a regular matrix, always for a
\* singular one eliminated without rounding; where a multiplier is rounded the
\* last pivot is a rounding residue that is zero or not with the arithmetic of
\* the linear-algebra build (fused or separate multiply and subtract).
LinAlgErrorOutcomes(M) ==
    IF ~IsSquare(M) THEN {TRUE}
    ELSE IF Det(M) # 0 THEN {FALSE}
    ELSE IF ExactElimination(M) THEN {TRUE}
    ELSE {TRUE, FALSE}

\* an entry of the result np.linalg.solve hands back for a singular matrix it
\* did not detect: a quotient by the rounding residue, of no fixed value
IllConditioned == "ill-conditioned"

ReplaceColumn(M, i, col) ==
    [r \in 1..Len(M) |-> [c \in 1..Len(M[r]) |-> IF c = i THEN col[r] ELSE M[r][c]]]

SolutionDecimals == 6

\* round(n / d, SolutionDecimals) in units of 10^-SolutionDecimals
RoundedQuotient(n, d) ==
    LET g == Gcd(n, d)
        sgn == IF d < 0 THEN -1 ELSE 1
        nn == sgn * (n \div g)
        dd == sgn * (d \div g)
        q == nn \div dd
        r == nn % dd
        unit == 10 ^ SolutionDecimals
    IN q * unit + ((2 * r * unit + dd) \div (2 * dd))

\* solution[i] of np.linalg.solve(A, b), by Cramer's rule, already rounded
SolvedValue(M, col, i) == RoundedQuotient(Det(ReplaceColumn(M, i, col)), Det(M))

----
(* Python's expression syntax, as far as eval() and sympify() need it here:   *)
(* numbers, names, calls, parentheses, unary and binary + - * / **.           *)
(* Each Parse operator returns the position after what it read, 0 on a        *)
(* syntax error.                                                              *)

ParseNumber(s, i) ==
    LET i1 == SkipDigits(s, i)
        i2 == IF At(s, i1) = "." THEN i1 + 1 ELSE i1
        i3 == SkipDigits(s, i2)
    IN IF (i1 = i /\ i3 = i2) \/ At(s, i3) \in (LetterChars \cup {"_"}) THEN 0 ELSE i3

RECURSIVE ParseExpr(_, _)
RECURSIVE ParseUnary(_, _)
RECURSIVE ParseAtom(_, _)
RECURSIVE ParseTrailers(_, _)
RECURSIVE ParseArgs(_, _)
RECURSIVE ParseBinTail(_, _)

ParseAtom(s, i) ==
    LET j == SkipSp(s, i)
        c == At(s, j)
    IN IF IsDigit(c) \/ c = "." THEN ParseNumber(s, j)
       ELSE IF IsLetter(c) \/ c = "_" THEN SkipWord(s, j)
       ELSE IF c = "("
            THEN LET e == SkipSp(s, j + 1)
                     k == ParseExpr(s, j + 1)
                     k2 == SkipSp(s, k)
                 IN IF At(s, e) = ")" THEN e + 1    \* the empty tuple
                    ELSE IF k # 0 /\ At(s, k2) = ")" THEN k2 + 1
                    ELSE 0
       ELSE 0

\* the arguments of a call, after '(' : expr (',' expr)* ')'
ParseArgs(s, i) ==
    LET k == ParseExpr(s, i)
        k2 == SkipSp(s, k)
    IN IF k = 0 THEN 0
       ELSE IF At(s, k2) = ")" THEN k2 + 1
       ELSE IF At(s, k2) = "," THEN ParseArgs(s, k2 + 1)
       ELSE 0

ParseTrailers(s, i) ==
    LET j == SkipSp(s, i)
    IN IF At(s, j) = "("
       THEN LET j2 == SkipSp(s, j + 1)
                k == IF At(s, j2) = ")" THEN j2 + 1 ELSE ParseArgs(s, j + 1)
            IN IF k = 0 THEN 0 ELSE ParseTrailers(s, k)
       ELSE i

ParseUnary(s, i) ==
    LET j == SkipSp(s, i)
    IN IF At(s, j) \in {"+", "-"} THEN ParseUnary(s, j + 1)
       ELSE LET k == ParseAtom(s, j)
            IN IF k = 0 THEN 0 ELSE ParseTrailers(s, k)

ParseBinTail(s, i) ==
    LET j == SkipSp(s, i)
        c == At(s, j)
        after == IF c = "*" /\ At(s, j + 1) = "*" THEN j + 2 ELSE j + 1
    IN IF c \in {"+", "-", "*", "/"}
       THEN LET k == ParseUnary(s, after)
            IN IF k = 0 THEN 0 ELSE ParseBinTail(s, k)
       ELSE i

ParseExpr(s, i) ==
    LET k == ParseUnary(s, i)
    IN IF k = 0 THEN 0 ELSE ParseBinTail(s, k)

\* the text is one well-formed expression
ParseOK(s) ==
    LET k == ParseExpr(s, 1)
    IN k # 0 /\ SkipSp(s, k) = Len(s) + 1

----
(* Preprocessing harness: preprocess_equation and the echo applied to bounded text *)

MaxLen == 4
MaxPasses == 2

PreAlphabet == {"2", "x", "^", "(", ")", "=", " "}

RECURSIVE StringsUpTo(_, _)
StringsUpTo(alphabet, n) ==
    IF n = 0 THEN {<<>>}
    ELSE LET shorter == StringsUpTo(alphabet, n - 1)
         IN shorter \cup {Append(s, c) : s \in {t \in shorter : Len(t) = n - 1},
                                          c \in alphabet}

Ex2x == <<"2", "x">>
ExPow == <<"x", "^", "2">>
ExGroups == <<"3", "(", "x", "+", "1", ")", "(", "x", "-", "2", ")">>

PreInputs == StringsUpTo(PreAlphabet, MaxLen) \cup {Ex2x, ExPow, ExGroups}

Idle ==
    /\ tool = "none" /\ argv = <<>> /\ data = <<>> /\ pc = "idle"
    /\ equation = <<>> /\ variables = <<>> /\ A = <<>> /\ b = <<>>
    /\ solution = <<>> /\ steps = <<>> /\ solutions = <<>> /\ attempt = 0
    /\ sol = NoSol
    /\ result = <<>> /\ stdout = <<>> /\ exitStatus = -1

InitPre ==
    /\ Idle
    /\ src \in PreInputs
    /\ text = src
    /\ prev = src
    /\ passes = 0
    /\ echoed = FALSE
    /\ expr = <<>> /\ narration = <<>>

\* one more application of preprocess_equation to the current text
Preprocess ==
    /\ passes < MaxPasses
    /\ prev' = text
    /\ text' = preprocess_equation(text)
    /\ passes' = passes + 1
    /\ UNCHANGED <<src, echoed>>
    /\ UNCHANGED progVars
    /\ UNCHANGED stepVars

\* the raw text becomes the expression a single-equation solver echoes
Standardize ==
    /\ passes = 0
    /\ ~echoed
    /\ text' = StandardizeEquation(text)
    /\ prev' = text
    /\ echoed' = TRUE
    /\ UNCHANGED <<src, passes>>
    /\ UNCHANGED progVars
    /\ UNCHANGED stepVars

NextPre == Preprocess \/ Standardize

SpecPre == InitPre /\ [][NextPre]_vars

----
(* Requests and responses *)

\* dict.get(k, default)
Get(d, k, default) == IF k \in DOMAIN d THEN d[k] ELSE default

\* the JSON object {}
EmptyObject == [k \in {} |-> TRUE]

\* an error object that still carries a (cleared) step log
ErrorKeepingSteps(prefix, detail) == [error |-> <<prefix, detail>>, steps |-> <<>>]

\* {"error": f"{prefix}{detail}"}
Error(prefix, detail) == [error |-> <<prefix, detail>>]

\* Python's None
None == [none |-> TRUE]

\* substring test: sub in s
HasSub(s, sub) ==
    \E i \in 1..(Len(s) - Len(sub) + 1) : SubSeq(s, i, i + Len(sub) - 1) = sub

----
(* The texts the requests are drawn from *)

EqQuadratic == <<"x", "^", "2", " ", "-", " ", "4", " ", "=", " ", "0">>
EqLinear == <<"2", "x", " ", "=", " ", "4">>
EqUnbalanced == <<"(", "x", "+", "1", " ", "=", " ", "0">>
EqStrayParen == <<"x", ")">>
Sys2xPlusY == <<"2", "x", " ", "+", " ", "y", " ", "=", " ", "5">>
SysXMinusY == <<"x", " ", "-", " ", "y", " ", "=", " ", "1">>
SysXPlusY == <<"x", "+", "y", "=", "3">>
SysDouble == <<"2", "x", "+", "2", "y", "=", "6">>
SysSpaced == <<"x", " ", "+", " ", "2", "y", " ", "=", " ", "5">>
SysUnbalanced == <<"(", "x", " ", "=", " ", "1">>
SysYIsX == <<"y", " ", "=", " ", "x">>
SysDot == <<".", "x", " ", "=", " ", "1">>
Sys49 == <<"4", "9", "x", "+", "4", "9", "y", "=", "1">>
OdeGrowth == <<"d", "y", "/", "d", "x", " ", "=", " ", "y">>
OdeBare == <<"x", " ", "+", " ", "y">>
OdeUnbalanced == <<"(", "y">>
dydxText == <<"d", "y", "/", "d", "x">>
yPrimeText == <<"y", "'">>
ExprSquare == <<"x", "^", "2">>
ExprTwoX == <<"2", "x">>
ExprUnbalanced == <<"(", "x">>
EqParameter == <<"x", "^", "2", "+", "a">>
EqSine == <<"s", "i", "n", "(", "x", ")">>
VarX == <<"x">>
VarY == <<"y">>

SolveTexts == {EqQuadratic, EqLinear, EqUnbalanced, EqStrayParen, ExGroups,
               EqParameter, EqSine}
SystemTexts == {Sys2xPlusY, SysXMinusY, SysXPlusY, SysDouble, SysSpaced,
                SysUnbalanced, SysYIsX, SysDot, Sys49}
OdeTexts == {OdeGrowth, OdeBare, OdeUnbalanced}
ExprTexts == {ExprSquare, ExprTwoX, ExprUnbalanced}

MaxEqs == 2
MaxPoints == 3
MaxFunctions == 2
MaxBrackets == 2

RECURSIVE ListsUpTo(_, _)
ListsUpTo(S, n) ==
    IF n = 0 THEN {<<>>}
    ELSE LET shorter == ListsUpTo(S, n - 1)
         IN shorter \cup {Append(l, x) : l \in {t \in shorter : Len(t) = n - 1}, x \in S}

\* a field that may be absent: the object with it, for every value, and without it
Optional(k, values) == {EmptyObject} \cup {k :> v : v \in values}

SolveRequests ==
    {t @@ e @@ d @@ sh :
        t \in Optional("type", {"solve"}),
        e \in Optional("equation", SolveTexts),
        d \in Optional("domain", {<<>>}),
        sh \in Optional("showSteps", {FALSE})}

SystemRequests ==
    {t @@ e @@ v :
        t \in {"type" :> "linear_system", "type" :> "system"},
        e \in Optional("equations", ListsUpTo(SystemTexts, MaxEqs)),
        v \in Optional("variables", {<<VarX, VarY>>, <<VarY, VarX>>})}

OdeRequests ==
    {("type" :> "ode") @@ e @@ m @@ n @@ ic :
        e \in Optional("equation", OdeTexts),
        m \in Optional("method", {"Euler", "Heun"}),
        n \in {"numPoints" :> k : k \in 0..MaxPoints},
        ic \in Optional("initialCondition", {1})}
    \cup {("type" :> "ode") @@ e : e \in Optional("equation", OdeTexts)}

CalculusRequests ==
    {t @@ e @@ sh :
        t \in {"type" :> "differentiate", "type" :> "integrate"},
        e \in Optional("expression", ExprTexts),
        sh \in Optional("showSteps", {FALSE})}

PlotRequests ==
    {f : f \in Optional("functions", ListsUpTo(ExprTexts, MaxFunctions))}

Requests ==
    SolveRequests \cup SystemRequests \cup OdeRequests \cup CalculusRequests
    \cup PlotRequests

Tools == {"numpy_solver", "sympy_solver", "plotter"}

\* sys.argv[1:]: nothing, text that is not JSON, JSON that is no object, or a request
Arguments ==
    {<<>>, <<[kind |-> "malformed", value |-> EmptyObject]>>,
           <<[kind |-> "nonobject", value |-> EmptyObject]>>}
    \cup {<<[kind |-> "object", value |-> r]>> : r \in Requests}

Init ==
    /\ tool \in Tools
    /\ argv \in Arguments
    /\ data = EmptyObject
    /\ pc = "start"
    /\ equation = <<>> /\ variables = <<>> /\ A = <<>> /\ b = <<>>
    /\ solution = <<>> /\ steps = <<>> /\ solutions = <<>> /\ attempt = 0
    /\ sol = NoSol
    /\ result = EmptyObject /\ stdout = EmptyObject /\ exitStatus = -1
    /\ text = <<>> /\ prev = <<>> /\ src = <<>> /\ passes = 0 /\ echoed = FALSE
    /\ expr = <<>> /\ narration = <<>>

locals == <<equation, variables, A, b, solution, steps, solutions, attempt>>

\* print(json.dumps({"error": ...})); sys.exit(1)
Fail(prefix, detail) ==
    /\ stdout' = Error(prefix, detail)
    /\ exitStatus' = 1
    /\ pc' = "exit"
    /\ UNCHANGED <<tool, argv, data, result>>
    /\ UNCHANGED locals
    /\ UNCHANGED <<sol, harnessVars>>

\* the operation returns `r` to __main__
Return(r) ==
    /\ result' = r
    /\ pc' = "print"

----
(* numpy_solver.py *)

NumpyOperation(d) ==
    IF Get(d, "type", "") = "linear_system" THEN "solve_linear_system_numeric"
    ELSE IF Get(d, "type", "") = "ode" THEN "solve_ode"
    ELSE "solve_equation_numeric"

NumpyMain ==
    /\ tool = "numpy_solver"
    /\ pc = "start"
    /\ \/ /\ argv = <<>>
          /\ Fail("No input data provided", "")
       \/ /\ argv # <<>>
          /\ argv[1].kind = "malformed"       \* json.loads raises
          /\ Fail("Error processing input: ", "JSONDecodeError")
       \/ /\ argv # <<>>
          /\ argv[1].kind = "nonobject"       \* data.get raises AttributeError
          /\ Fail("Error processing input: ", "AttributeError")
       \/ /\ argv # <<>>
          /\ argv[1].kind = "object"
          /\ data' = argv[1].value
          /\ pc' = NumpyOperation(argv[1].value)
          /\ UNCHANGED <<tool, argv, result, stdout, exitStatus>>
          /\ UNCHANGED locals
          /\ UNCHANGED <<sol, harnessVars>>

\* print(json.dumps(result)) and the normal end of the script (all three tools)
PrintResult ==
    /\ pc = "print"
    /\ stdout' = result
    /\ exitStatus' = 0
    /\ pc' = "exit"
    /\ UNCHANGED <<tool, argv, data, result>>
    /\ UNCHANGED locals
    /\ UNCHANGED <<sol, harnessVars>>

NumSeeds == 10
DefaultPrecision == 4

\* root values are counted in units of 10^-(precision + 1)
RawPerUnit == 10 ^ (DefaultPrecision + 1)

DefaultDomain == <<(-1000) * RawPerUnit, 1000 * RawPerUnit>>

\* round(sol, precision)
RoundToPrecision(raw) == ((raw + 5) \div 10) * 10

\* what a root search can hand back for a well-formed expression
RawRoots == {(-2) * RawPerUnit, 2 * RawPerUnit, 2 * RawPerUnit + 4, 2000 * RawPerUnit}

\* optimize.newton(f, x0) and the f(sol) that follows: an exception (always, when
\* eval() cannot parse the text), or a value with |f(sol)| < 1e-10 or not
NewtonOutcomes(eq) ==
    {[raised |-> TRUE, sol |-> 0, is_zero |-> FALSE]}
    \cup (IF ParseOK(eq)
          THEN {[raised |-> FALSE, sol |-> r, is_zero |-> z] :
                    r \in RawRoots, z \in BOOLEAN}
          ELSE {})

\* optimize.brentq(f, a, b) when it converges: a point of the bracket, so of
\* the domain, where f changes sign; f is within 1e-10 of zero there or, at a
\* pole or a jump, it is not
BrentqOutcomes(domain) ==
    {[value |-> r, is_zero |-> z] :
        r \in {x \in RawRoots : domain[1] <= x /\ x <= domain[2]}, z \in BOOLEAN}

\* lines 27-63
SolveNumericBegin ==
    /\ pc = "solve_equation_numeric"
    /\ equation' = StandardizeEquation(Get(data, "equation", <<>>))
    /\ solutions' = <<>>
    /\ steps' = <<"Using numeric method to solve">>
    /\ attempt' = 1
    /\ IF Len(Get(data, "domain", DefaultDomain)) < 2
       THEN Return(Error("Error solving equation: ", "IndexError"))  \* domain[0]
       ELSE pc' = "newton" /\ UNCHANGED result
    /\ UNCHANGED <<tool, argv, data, stdout, exitStatus, variables, A, b, solution>>
    /\ UNCHANGED <<sol, harnessVars>>

\* one iteration of `for x0 in x0_values` (lines 65-75)
NewtonAttempt ==
    /\ pc = "newton"
    /\ attempt <= NumSeeds
    /\ \E o \in NewtonOutcomes(equation) :
         LET domain == Get(data, "domain", DefaultDomain)
             keep == /\ ~o.raised
                     /\ domain[1] <= o.sol /\ o.sol <= domain[2]
                     /\ o.is_zero
                     /\ ~\E k \in 1..Len(solutions) : solutions[k] = o.sol
         IN /\ solutions' = IF keep THEN Append(solutions, RoundToPrecision(o.sol))
                            ELSE solutions
            /\ steps' = IF keep THEN Append(steps, "Found solution from starting point")
                        ELSE steps
            /\ sol' = IF o.raised THEN sol ELSE [value |-> o.sol, is_zero |-> o.is_zero]
            /\ attempt' = attempt + 1
            /\ pc' = IF attempt < NumSeeds THEN "newton"
                     ELSE IF solutions' = <<>> THEN "brute_force"
                     ELSE "solve_numeric_return"
    /\ UNCHANGED <<tool, argv, data, result, stdout, exitStatus>>
    /\ UNCHANGED <<equation, variables, A, b, solution>>
    /\ UNCHANGED harnessVars

\* lines 78-87 and 95-96: the dense sample; evaluating it raises, or it shows
\* some number of sign changes
BruteForceScan ==
    /\ pc = "brute_force"
    /\ \/ /\ steps' = steps \o <<"Using brute force root finding",
                                 "Error in brute force approach">>
          /\ attempt' = 0
          /\ pc' = "solve_numeric_return"
       \/ /\ ParseOK(equation)
          /\ \E n \in 0..MaxBrackets :
               /\ attempt' = n
               /\ pc' = IF n = 0 THEN "solve_numeric_return" ELSE "bracket"
          /\ steps' = Append(steps, "Using brute force root finding")
    /\ UNCHANGED <<tool, argv, data, result, stdout, exitStatus>>
    /\ UNCHANGED <<equation, variables, A, b, solution, solutions>>
    /\ UNCHANGED <<sol, harnessVars>>

\* a bracketing interval without the handler of lines 93-94: a brentq that
\* raises is left to the handler of the whole solve
BracketAttemptUnguarded ==
    /\ pc = "bracket"
    /\ attempt > 0
    /\ \/ /\ \E o \in BrentqOutcomes(Get(data, "domain", DefaultDomain)) :
               /\ sol' = o
               /\ solutions' = Append(solutions, RoundToPrecision(o.value))
               /\ steps' = Append(steps, "Found solution in interval")
          /\ attempt' = attempt - 1
          /\ pc' = IF attempt = 1 THEN "solve_numeric_return" ELSE "bracket"
          /\ UNCHANGED result
       \/ /\ Return(Error("Error solving equation: ", "exception"))
          /\ UNCHANGED <<solutions, steps, attempt, sol>>
    /\ UNCHANGED <<tool, argv, data, stdout, exitStatus>>
    /\ UNCHANGED <<equation, variables, A, b, solution>>
    /\ UNCHANGED harnessVars

\* one bracketing interval (lines 88-94): brentq converges or raises
BracketAttempt ==
    /\ pc = "bracket"
    /\ attempt > 0
    /\ \/ \E o \in BrentqOutcomes(Get(data, "domain", DefaultDomain)) :
            /\ sol' = o
            /\ solutions' = Append(solutions, RoundToPrecision(o.value))
            /\ steps' = Append(steps, "Found solution in interval")
       \/ /\ steps' = Append(steps, "Failed to converge in interval")
          /\ UNCHANGED <<solutions, sol>>
    /\ attempt' = attempt - 1
    /\ pc' = IF attempt = 1 THEN "solve_numeric_return" ELSE "bracket"
    /\ UNCHANGED <<tool, argv, data, result, stdout, exitStatus>>
    /\ UNCHANGED <<equation, variables, A, b, solution>>
    /\ UNCHANGED harnessVars

\* lines 99-106
SolveNumericReturn ==
    /\ pc = "solve_numeric_return"
    /\ solutions' = SortedInts(Range(solutions))
    /\ Return([solutions |-> solutions',
               expression |-> equation,
               variable |-> Get(data, "variable", VarX),
               steps |-> steps])
    /\ UNCHANGED <<tool, argv, data, stdout, exitStatus>>
    /\ UNCHANGED <<equation, variables, A, b, solution, steps, attempt>>
    /\ UNCHANGED <<sol, harnessVars>>

\* result[var] = value on a dict kept as its list of items, in insertion order
DictSet(items, k, v) ==
    IF \E i \in 1..Len(items) : items[i][1] = k
    THEN [i \in 1..Len(items) |-> IF items[i][1] = k THEN <<k, v>> ELSE items[i]]
    ELSE Append(items, <<k, v>>)

\* the loop `for i, var in enumerate(variables): result[var] = values[i]`
RECURSIVE DictFromLists(_, _, _)
DictFromLists(keys, values, n) ==
    IF n = 0 THEN <<>>
    ELSE DictSet(DictFromLists(keys, values, n - 1), keys[n], values[n])

SolutionItems(vs, values) == DictFromLists(vs, values, Len(vs))

\* lines 113-137
LinearBegin ==
    /\ pc = "solve_linear_system_numeric"
    /\ LET equations == Get(data, "equations", <<>>)
       IN IF equations = <<>>
          THEN /\ Return(Error("No equations provided", ""))
               /\ UNCHANGED <<variables, steps, attempt>>
          ELSE /\ variables' = ResolveVariables(equations, Get(data, "variables", <<>>))
               /\ steps' = <<"Variables">>
               /\ attempt' = 1
               /\ pc' = "linear_rows"
               /\ UNCHANGED result
    /\ A' = <<>>
    /\ b' = <<>>
    /\ UNCHANGED <<tool, argv, data, stdout, exitStatus, equation, solution, solutions>>
    /\ UNCHANGED <<sol, harnessVars>>

\* one iteration of `for eq in equations` (lines 140-189); a float() that raises
\* ValueError ends the solve in the generic handler of line 215
LinearRow ==
    /\ pc = "linear_rows"
    /\ LET equations == Get(data, "equations", <<>>)
           eq == equations[attempt]
       IN IF RowRaises(eq, variables)
          THEN /\ Return(Error("Error solving system: ",
                               "could not convert string to float"))
               /\ UNCHANGED <<A, b, steps, attempt>>
          ELSE /\ A' = Append(A, RowCoeffs(eq, variables))
               /\ b' = Append(b, RowConst(eq))
               /\ steps' = steps \o <<"Processed equation", "Coefficients">>
               /\ attempt' = attempt + 1
               /\ pc' = IF attempt = Len(equations) THEN "linear_solve" ELSE "linear_rows"
               /\ UNCHANGED result
    /\ UNCHANGED <<tool, argv, data, stdout, exitStatus>>
    /\ UNCHANGED <<equation, variables, solution, solutions>>
    /\ UNCHANGED <<sol, harnessVars>>

\* the handler of lines 213-214
SingularError == Error("The system is singular or not uniquely solvable", "")

\* lines 192-214
LinearSolve ==
    /\ pc = "linear_solve"
    /\ steps' = steps \o <<"Coefficient matrix A", "Constant vector b">>
    /\ \E raised \in LinAlgErrorOutcomes(A) :
       IF raised
       THEN /\ Return(SingularError)
            /\ UNCHANGED solution
       ELSE /\ solution' = [i \in 1..Len(variables) |->
                              IF Det(A) = 0 THEN IllConditioned
                              ELSE SolvedValue(A, b, i)]
            /\ Return([solution |-> SolutionItems(variables, solution'),
                       variables |-> variables,
                       matrix |-> A,
                       constants |-> b,
                       steps |-> steps'])
    /\ UNCHANGED <<tool, argv, data, stdout, exitStatus>>
    /\ UNCHANGED <<equation, variables, A, b, solutions, attempt>>
    /\ UNCHANGED <<sol, harnessVars>>

\* a sample of the solution curve: a number (in units of 1/(numPoints - 1)) or NaN
Num(v) == [nan |-> FALSE, v |-> v]
NaN == [nan |-> TRUE, v |-> 0]

DefaultNumPoints == 100
DefaultXEnd == 10

\* the right-hand side the ODE solver evaluates (lines 234-242)
OdeExpression(eq) ==
    IF Contains(eq, "=")
    THEN LET k == Find(eq, "=", 1)
             lhs == Slice(eq, 1, k - 1)
             rhs == Slice(eq, k + 1, Len(eq))
         IN IF HasSub(lhs, dydxText) \/ HasSub(lhs, yPrimeText)
            THEN preprocess_equation(Strip(rhs))
            ELSE preprocess_equation(Strip(lhs))
    ELSE preprocess_equation(eq)

\* ode_func(x, y)[0]: NaN when eval() raises, which it always does on text it
\* cannot parse
Slopes(eq) == {NaN} \cup (IF ParseOK(eq) THEN {Num(0), Num(1)} ELSE {})

\* lines 220-246, the method selection, and lines 309-320 for Euler
OdeBegin ==
    /\ pc = "solve_ode"
    /\ equation' = OdeExpression(Get(data, "equation", <<>>))
    /\ steps' = <<"ODE to solve", "Initial condition", "Integration range">>
    /\ LET method == Get(data, "method", "RK45")
           num_points == Get(data, "numPoints", DefaultNumPoints)
           initial_condition == Get(data, "initialCondition", 0)
       IN \/ /\ method = "RK45"
             /\ pc' = "rk45"
             /\ UNCHANGED <<result, solution, attempt>>
          \/ /\ method = "Euler"
             /\ num_points = 1            \* (x_end - x0) / (num_points - 1)
             /\ Return(Error("Error solving ODE: ", "division by zero"))
             /\ UNCHANGED <<solution, attempt>>
          \/ /\ method = "Euler"
             /\ num_points = 0            \* y_values[0] on an empty array
             /\ Return(Error("Error solving ODE: ", "IndexError"))
             /\ UNCHANGED <<solution, attempt>>
          \/ /\ method = "Euler"
             /\ num_points > 1
             /\ solution' = <<Num(initial_condition * (num_points - 1))>>
             /\ attempt' = 1
             /\ pc' = "euler"
             /\ UNCHANGED result
          \/ /\ method \notin {"RK45", "Euler"}
             /\ Return(Error("Unsupported method: ", method))
             /\ UNCHANGED <<solution, attempt>>
    /\ UNCHANGED <<tool, argv, data, stdout, exitStatus, variables, A, b, solutions>>
    /\ UNCHANGED <<sol, harnessVars>>

\* lines 272-306: solve_ivp raises, reports failure, or succeeds (which of them
\* is the integrator's business); the sampled lists are kept by their length
OdeRungeKutta ==
    /\ pc = "rk45"
    /\ \/ /\ Return(Error("Error solving ODE: ", "solve_ivp"))
          /\ UNCHANGED steps
       \/ /\ Return(Error("ODE solver failed: ", "message"))
          /\ steps' = steps \o <<"Using Runge-Kutta 4(5) method", "Tolerance">>
       \/ /\ steps' = steps \o <<"Using Runge-Kutta 4(5) method", "Tolerance",
                                 "ODE solver status", "Function evaluations">>
          /\ Return([x |-> Get(data, "numPoints", DefaultNumPoints),
                     y |-> Get(data, "numPoints", DefaultNumPoints),
                     equation |-> equation,
                     method |-> "RK45",
                     success |-> TRUE,
                     message |-> "message",
                     steps |-> steps'])
    /\ UNCHANGED <<tool, argv, data, stdout, exitStatus>>
    /\ UNCHANGED <<equation, variables, A, b, solution, solutions, attempt>>
    /\ UNCHANGED <<sol, harnessVars>>

\* the Euler loop over an ode_func without the handler of lines 266-268: an
\* evaluation that raises is left to the handler of the whole solve
EulerStepUnguarded ==
    /\ pc = "euler"
    /\ attempt < Get(data, "numPoints", DefaultNumPoints)
    /\ \E slope \in Slopes(equation) :
         LET y == solution[attempt]
             range == Get(data, "xEnd", DefaultXEnd) - Get(data, "x0", 0)
         IN IF slope.nan
            THEN /\ Return(Error("Error solving ODE: ", "exception"))
                 /\ UNCHANGED <<solution, attempt>>
            ELSE /\ solution' = Append(solution,
                                       IF y.nan THEN NaN
                                       ELSE Num(y.v + range * slope.v))
                 /\ attempt' = attempt + 1
                 /\ pc' = IF attempt' = Get(data, "numPoints", DefaultNumPoints)
                          THEN "euler_return" ELSE "euler"
                 /\ UNCHANGED result
    /\ UNCHANGED <<tool, argv, data, stdout, exitStatus>>
    /\ UNCHANGED <<equation, variables, A, b, steps, solutions>>
    /\ UNCHANGED <<sol, harnessVars>>

\* one iteration of the Euler loop (lines 323-329): y + h * slope, with
\* h = (x_end - x0) / (num_points - 1) and y counted in units of 1/(num_points - 1)
EulerStep ==
    /\ pc = "euler"
    /\ attempt < Get(data, "numPoints", DefaultNumPoints)
    /\ \E slope \in Slopes(equation) :
         LET y == solution[attempt]
             range == Get(data, "xEnd", DefaultXEnd) - Get(data, "x0", 0)
         IN solution' = Append(solution,
                               IF y.nan \/ slope.nan THEN NaN
                               ELSE Num(y.v + range * slope.v))
    /\ attempt' = attempt + 1
    /\ pc' = IF attempt' = Get(data, "numPoints", DefaultNumPoints)
             THEN "euler_return" ELSE "euler"
    /\ UNCHANGED <<tool, argv, data, result, stdout, exitStatus>>
    /\ UNCHANGED <<equation, variables, A, b, steps, solutions>>
    /\ UNCHANGED <<sol, harnessVars>>

\* lines 331-339
EulerReturn ==
    /\ pc = "euler_return"
    /\ steps' = steps \o <<"Using Euler's method", "Step size">>
    /\ Return([x |-> Len(solution),
               y |-> solution,
               equation |-> equation,
               method |-> "Euler",
               success |-> TRUE,
               message |-> "Solution computed using Euler's method",
               steps |-> steps'])
    /\ UNCHANGED <<tool, argv, data, stdout, exitStatus>>
    /\ UNCHANGED <<equation, variables, A, b, solution, solutions, attempt>>
    /\ UNCHANGED <<sol, harnessVars>>

----
(* sympy_solver.py *)

\* a dispatch that takes the numeric tool's name for a system as well
SympyOperationBothNames(d) ==
    LET operation_type == Get(d, "type", "solve")
    IN IF operation_type \in {"system", "linear_system"} THEN "solve_symbolic_system"
       ELSE IF operation_type = "differentiate" THEN "perform_differentiation"
       ELSE IF operation_type = "integrate" THEN "perform_integration"
       ELSE "solve_symbolic_equation"

SympyOperation(d) ==
    LET operation_type == Get(d, "type", "solve")
    IN IF operation_type = "system" THEN "solve_symbolic_system"
       ELSE IF operation_type = "differentiate" THEN "perform_differentiation"
       ELSE IF operation_type = "integrate" THEN "perform_integration"
       ELSE "solve_symbolic_equation"

SympyMain ==
    /\ tool = "sympy_solver"
    /\ pc = "start"
    /\ \/ /\ argv = <<>>
          /\ Fail("No input data provided", "")
       \/ /\ argv # <<>>
          /\ argv[1].kind = "malformed"       \* json.loads raises
          /\ Fail("Error processing input: ", "JSONDecodeError")
       \/ /\ argv # <<>>
          /\ argv[1].kind = "nonobject"       \* data.get raises AttributeError
          /\ Fail("Error processing input: ", "AttributeError")
       \/ /\ argv # <<>>
          /\ argv[1].kind = "object"
          /\ data' = argv[1].value
          /\ pc' = SympyOperation(argv[1].value)
          /\ UNCHANGED <<tool, argv, result, stdout, exitStatus>>
          /\ UNCHANGED locals
          /\ UNCHANGED <<sol, harnessVars>>

\* a handler that hands back what was collected so far beside the message
SymbolicEquationErrorWithSteps(collected) ==
    [error |-> <<"Error solving equation: ", "exception">>, steps |-> collected]

\* the except handler of solve_symbolic_equation (lines 223-224)
SymbolicEquationError(collected) == Error("Error solving equation: ", "exception")

----
(* generate_equation_steps (sympy_solver.py lines 28-155).  An expression is   *)
(* the record of what the function asks sympy about it:                       *)
(*   is_polynomial         expr.is_polynomial(var)                            *)
(*   has_trig/has_log/has_exp   the substring tests on str(expr)              *)
(*   coeffs                as_poly(var).all_coeffs(), leading coefficient     *)
(*                         first; <<>> when expr is no polynomial             *)
(*   parameter             the constant coefficient is a symbol other than    *)
(*                         var (its entry in coeffs then stands for it)       *)
(*   simplifies, collects  simplify(expr) # expr, collect(expr, var) # expr   *)
(*   factoring, pieces     factor(expr): "same", "changed" (no '*' in its     *)
(*                         text), "product" of `pieces` parts, or "raises"    *)
(*   invert                _invert(expr, 0, var): "isolated", "other",        *)
(*                         "raises"                                           *)

Step(kind) == [kind |-> kind]

\* steps.append(f"Solving {f} = 0") for each of n pieces
SolvingSteps(n) == [k \in 1..n |-> Step("Solving")]

\* lines 58-70
FactorSteps(e) ==
    CASE e.factoring = "same" -> <<>>
      [] e.factoring = "raises" -> <<Step("Could not factor further")>>
      [] e.factoring = "changed" -> <<Step("Factoring")>>
      [] e.factoring = "product" ->
            <<Step("Factoring"), Step("Using the zero-product property")>>
            \o SolvingSteps(e.pieces)

\* lines 73-80: a, b = coeffs
LinearSteps(e) ==
    LET coef_a == e.coeffs[1]
        coef_b == e.coeffs[2]
    IN <<Step("For linear equations ax + b = 0, the solution is x = -b/a"),
         [kind |-> "Here a and b", a |-> coef_a, b |-> coef_b],
         [kind |-> "Substituting", num |-> 0 - coef_b, den |-> coef_a]>>

\* a narrated root: (minus_b + sign * sqrt(disc)) / den, as line 96, 97 and 100 write it
Root(minus_b, sign, disc, den) ==
    [minus_b |-> minus_b, sign |-> sign, disc |-> disc, den |-> den]

\* lines 82-102: c, b, a = quadratic.all_coeffs().  The comparison of line 94
\* raises TypeError when the discriminant is no number.
QuadraticSteps(e) ==
    LET coef_c == e.coeffs[1]
        coef_b == e.coeffs[2]
        coef_a == e.coeffs[3]
        discriminant == coef_b * coef_b - 4 * coef_a * coef_c
        head == <<Step("For quadratic equations, we can use the quadratic formula"),
                  Step("x = (-b +- sqrt(b^2 - 4ac)) / (2a)"),
                  [kind |-> "Here a, b, c", a |-> coef_a, b |-> coef_b, c |-> coef_c],
                  [kind |-> "Calculate the discriminant", value |-> discriminant]>>
    IN IF e.parameter
       THEN [raised |-> TRUE, steps |-> head]
       ELSE [raised |-> FALSE,
             steps |-> head \o
               (IF discriminant > 0
                THEN <<Step("Discriminant > 0, so there are two real solutions"),
                       [kind |-> "x1", x |-> Root(0 - coef_b, 1, discriminant, 2 * coef_a)],
                       [kind |-> "x2", x |-> Root(0 - coef_b, -1, discriminant, 2 * coef_a)]>>
                ELSE IF discriminant = 0
                THEN <<Step("Discriminant = 0, so there is one repeated solution"),
                       [kind |-> "x", x |-> Root(0 - coef_b, 0, 0, 2 * coef_a)]>>
                ELSE <<Step("Discriminant < 0, so there are two complex solutions")>>)]

\* lines 47-102
PolynomialSteps(e) ==
    LET degree == Len(e.coeffs) - 1
        head == <<[kind |-> "This is a polynomial equation of degree", degree |-> degree]>>
                \o (IF e.collects THEN <<Step("Rearranging to standard form")>> ELSE <<>>)
                \o FactorSteps(e)
    IN IF degree = 1
       THEN [raised |-> FALSE, steps |-> head \o LinearSteps(e)]
       ELSE IF degree = 2
       THEN LET q == QuadraticSteps(e)
            IN [raised |-> q.raised, steps |-> head \o q.steps]
       ELSE [raised |-> FALSE, steps |-> head]

\* lines 138-150
GenericSteps(e) ==
    <<Step("General approach: isolating the variable")>>
    \o (CASE e.invert = "isolated" -> <<Step("Isolating")>>
          [] e.invert = "raises" -> <<Step("Could not isolate variable directly")>>
          [] OTHER -> <<>>)

\* a shape branch that falls through to the generic branch as well
ShapeStepsThenGeneric(title, approach, simplified, e) ==
    <<Step(title), Step(approach)>>
    \o (IF e.resimplifies THEN <<Step(simplified)>> ELSE <<>>)
    \o GenericSteps(e)

\* lines 105-135: the three shapes told by a substring, each with a second simplify
ShapeSteps(title, approach, simplified, e) ==
    <<Step(title), Step(approach)>>
    \o (IF e.resimplifies THEN <<Step(simplified)>> ELSE <<>>)

\* generate_equation_steps(expr, var): the steps, or the exception that leaves it
generate_equation_steps(e) ==
    LET head == <<Step("Starting with expression")>>
                \o (IF e.simplifies THEN <<Step("Simplifying")>> ELSE <<>>)
        tail == <<Step("Finally, solving the equation using SymPy's solve function")>>
        body ==
            IF e.is_polynomial THEN PolynomialSteps(e)
            ELSE IF e.has_trig
            THEN [raised |-> FALSE,
                  steps |-> ShapeSteps("This is a trigonometric equation",
                                       "For trigonometric equations",
                                       "Simplifying trigonometric expression", e)]
            ELSE IF e.has_log
            THEN [raised |-> FALSE,
                  steps |-> ShapeSteps("This is a logarithmic equation",
                                       "For logarithmic equations",
                                       "Simplifying logarithmic expression", e)]
            ELSE IF e.has_exp
            THEN [raised |-> FALSE,
                  steps |-> ShapeSteps("This is an exponential equation",
                                       "For exponential equations",
                                       "Simplifying exponential expression", e)]
            ELSE [raised |-> FALSE, steps |-> GenericSteps(e)]
    IN IF body.raised THEN [raised |-> TRUE, steps |-> head \o body.steps]
       ELSE [raised |-> FALSE, steps |-> head \o body.steps \o tail]

----
(* Narration harness: generate_equation_steps applied to one expression *)

MaxPieces == 3

\* all_coeffs() of the polynomials tried, leading coefficient first
PolynomialCoeffs ==
    {<<5>>, <<2, -4>>, <<1, 0, -4>>, <<1, -2, 1>>, <<1, 0, 1>>, <<2, 3, 1>>,
     <<1, -2, 0>>, <<1, 0, 0, -8>>}

\* the expressions of one kind: polynomial in var (p) or not
ExpressionsOf(p) ==
    {[is_polynomial |-> p, has_trig |-> t, has_log |-> l, has_exp |-> x,
      coeffs |-> c, parameter |-> q, simplifies |-> z, collects |-> k,
      factoring |-> f, pieces |-> n, resimplifies |-> r, invert |-> i] :
        t \in BOOLEAN, l \in BOOLEAN, x \in BOOLEAN,
        c \in IF p THEN PolynomialCoeffs ELSE {<<>>},
        q \in BOOLEAN, z \in BOOLEAN, k \in BOOLEAN,
        f \in {"same", "changed", "product", "raises"}, n \in 2..MaxPieces,
        r \in BOOLEAN, i \in {"isolated", "other", "raises"}}

Expressions == ExpressionsOf(TRUE) \cup ExpressionsOf(FALSE)

NotCalled == [raised |-> FALSE, steps |-> <<>>]

InitSteps ==
    /\ Idle
    /\ text = <<>> /\ prev = <<>> /\ src = <<>> /\ passes = 0 /\ echoed = FALSE
    /\ expr \in Expressions
    /\ narration = NotCalled

\* steps.extend(generate_equation_steps(expr, var)) seen from the caller
GenerateSteps ==
    /\ narration.steps = <<>>
    /\ narration' = generate_equation_steps(expr)
    /\ UNCHANGED expr
    /\ UNCHANGED progVars
    /\ UNCHANGED preVars

NextSteps == GenerateSteps

SpecSteps == InitSteps /\ [][NextSteps]_vars

\* the kinds of a list of steps, as the tags `steps` keeps
StepKinds(list) == [k \in 1..Len(list) |-> list[k].kind]

\* an expression without a polynomial reading and with nothing to rewrite
PlainExpression ==
    [is_polynomial |-> FALSE, has_trig |-> FALSE, has_log |-> FALSE, has_exp |-> FALSE,
     coeffs |-> <<>>, parameter |-> FALSE, simplifies |-> FALSE, collects |-> FALSE,
     factoring |-> "same", pieces |-> 0, resimplifies |-> FALSE, invert |-> "other"]

\* sympify(equation) for the texts requests are drawn from, as the expressions
\* it can be (whether simplify rewrites them is left open); {} when it raises
Sympified(eq) ==
    CASE eq = StandardizeEquation(EqQuadratic) ->         \* x**2 - 4
           {[PlainExpression EXCEPT !.is_polynomial = TRUE, !.coeffs = <<1, 0, -4>>,
                                    !.factoring = "product", !.pieces = 2,
                                    !.simplifies = z] : z \in BOOLEAN}
      [] eq = StandardizeEquation(EqLinear) ->            \* 2*x - 4
           {[PlainExpression EXCEPT !.is_polynomial = TRUE, !.coeffs = <<2, -4>>,
                                    !.factoring = "product", !.pieces = 2,
                                    !.simplifies = z] : z \in BOOLEAN}
      [] eq = StandardizeEquation(EqParameter) ->         \* a + x**2
           {[PlainExpression EXCEPT !.is_polynomial = TRUE, !.coeffs = <<1, 0, 0>>,
                                    !.parameter = TRUE,
                                    !.simplifies = z] : z \in BOOLEAN}
      [] eq = StandardizeEquation(EqSine) ->              \* sin(x)
           {[PlainExpression EXCEPT !.has_trig = TRUE]}
      [] OTHER -> {}

\* lines 159-183: sympify raises on text that is no expression, and on text
\* that is one but cannot be evaluated (a number called as a function)
SymbolicBegin ==
    /\ pc = "solve_symbolic_equation"
    /\ equation' = StandardizeEquation(Get(data, "equation", <<>>))
    /\ solutions' = <<>>
    /\ IF ~ParseOK(equation') \/ Sympified(equation') = {}
       THEN /\ steps' = <<"Using symbolic method to solve">>
            /\ Return(SymbolicEquationError(steps'))
       ELSE /\ steps' = <<"Using symbolic method to solve", "Expression parsed as">>
            /\ pc' = IF Get(data, "showSteps", TRUE) THEN "narrate" ELSE "symbolic_solve"
            /\ UNCHANGED result
    /\ UNCHANGED <<tool, argv, data, stdout, exitStatus>>
    /\ UNCHANGED <<variables, A, b, solution, attempt>>
    /\ UNCHANGED <<sol, harnessVars>>

\* lines 186-187: the narration is appended, or generate_equation_steps raises
Narrate ==
    /\ pc = "narrate"
    /\ \E e \in Sympified(equation) :
         LET generated == generate_equation_steps(e)
         IN IF generated.raised
            THEN /\ Return(SymbolicEquationError(steps))
                 /\ UNCHANGED steps
            ELSE /\ steps' = steps \o StepKinds(generated.steps)
                 /\ pc' = "symbolic_solve"
                 /\ UNCHANGED result
    /\ UNCHANGED <<tool, argv, data, stdout, exitStatus>>
    /\ UNCHANGED <<equation, variables, A, b, solution, solutions, attempt>>
    /\ UNCHANGED <<sol, harnessVars>>

\* a solution solve() hands back: a real number or one float() rejects
RealRoot(raw) == [real |-> TRUE, raw |-> raw]
ComplexRoot == [real |-> FALSE, raw |-> 0]

SymbolicSolutionLists ==
    {<<>>, <<RealRoot((-2) * RawPerUnit), RealRoot(2 * RawPerUnit)>>,
     <<RealRoot(2 * RawPerUnit), RealRoot((-2) * RawPerUnit)>>,
     <<RealRoot(2 * RawPerUnit + 4), RealRoot(2 * RawPerUnit)>>,
     <<RealRoot(2000 * RawPerUnit)>>, <<ComplexRoot, RealRoot(2 * RawPerUnit)>>}

\* the loop of lines 193-211 over the first n solutions
RECURSIVE ValidatedSolutions(_, _, _)
ValidatedSolutions(sols, domain, n) ==
    IF n = 0 THEN <<>>
    ELSE LET rest == ValidatedSolutions(sols, domain, n - 1)
             each == sols[n]
         IN IF each.real /\ domain[1] <= each.raw /\ each.raw <= domain[2]
            THEN Append(rest, RoundToPrecision(each.raw))
            ELSE rest

RECURSIVE ValidationSteps(_, _, _)
ValidationSteps(sols, domain, n) ==
    IF n = 0 THEN <<>>
    ELSE LET rest == ValidationSteps(sols, domain, n - 1)
             each == sols[n]
         IN IF ~each.real THEN Append(rest, "Skipping complex solution")
            ELSE IF domain[1] <= each.raw /\ each.raw <= domain[2]
                 THEN Append(rest, "Validated solution")
            ELSE rest

\* lines 189-224: solve() raises or hands back a list; domain[0] raises on a
\* domain that is too short once a real solution is looked at
SymbolicSolve ==
    /\ pc = "symbolic_solve"
    /\ LET domain == Get(data, "domain", DefaultDomain)
       IN \/ /\ Return(SymbolicEquationError(steps))
             /\ UNCHANGED <<steps, solutions>>
          \/ \E sols \in SymbolicSolutionLists :
               IF Len(domain) < 2 /\ \E k \in 1..Len(sols) : sols[k].real
               THEN /\ Return(SymbolicEquationError(steps))
                    /\ UNCHANGED <<steps, solutions>>
               ELSE /\ steps' = steps \o <<"Raw solutions">>
                                \o ValidationSteps(sols, domain, Len(sols))
                    /\ solutions' = SortedInts(Range(
                                        ValidatedSolutions(sols, domain, Len(sols))))
                    /\ Return([solutions |-> solutions',
                               expression |-> equation,
                               variable |-> Get(data, "variable", VarX),
                               steps |-> steps'])
    /\ UNCHANGED <<tool, argv, data, stdout, exitStatus>>
    /\ UNCHANGED <<equation, variables, A, b, solution, attempt>>
    /\ UNCHANGED <<sol, harnessVars>>

\* lines 228-258
SystemBegin ==
    /\ pc = "solve_symbolic_system"
    /\ LET equations == Get(data, "equations", <<>>)
       IN IF equations = <<>>
          THEN /\ Return(Error("No equations provided", ""))
               /\ UNCHANGED <<variables, steps, attempt>>
          ELSE /\ variables' = ResolveVariables(equations, Get(data, "variables", <<>>))
               /\ steps' = <<"Variables to solve for", "System of equations">>
                           \o [k \in 1..Len(equations) |-> "Equation"]
               /\ attempt' = 1
               /\ pc' = "system_parse"
               /\ UNCHANGED result
    /\ UNCHANGED <<tool, argv, data, stdout, exitStatus>>
    /\ UNCHANGED <<equation, A, b, solution, solutions>>
    /\ UNCHANGED <<sol, harnessVars>>

\* both sides of an equation of the system parse (lines 262-272)
SystemEquationParses(eq) ==
    IF Contains(eq, "=")
    THEN LET sd == SystemSides(eq) IN ParseOK(sd.left) /\ ParseOK(sd.right)
    ELSE ParseOK(preprocess_equation(Strip(eq)))

\* one iteration of `for eq in equations` (lines 261-272)
SystemParse ==
    /\ pc = "system_parse"
    /\ LET equations == Get(data, "equations", <<>>)
       IN \/ /\ Return(Error("Error solving system: ", "exception"))
             /\ UNCHANGED <<steps, attempt>>
          \/ /\ SystemEquationParses(equations[attempt])
             /\ steps' = Append(steps, "Parsed equation")
             /\ attempt' = attempt + 1
             /\ pc' = IF attempt = Len(equations) THEN "system_solve" ELSE "system_parse"
             /\ UNCHANGED result
    /\ UNCHANGED <<tool, argv, data, stdout, exitStatus>>
    /\ UNCHANGED <<equation, variables, A, b, solution, solutions>>
    /\ UNCHANGED <<sol, harnessVars>>

\* sol[0]: the values solve() found, keyed by symbol; a symbol may be missing
SolvedValues == {1000000, 2000000}
SymbolValues(vs) ==
    UNION {[keys -> SolvedValues] : keys \in SUBSET Range(vs)}

\* lines 275-300
SystemSolve ==
    /\ pc = "system_solve"
    /\ steps' = Append(steps, "Solving the system symbolically")
    /\ \/ /\ Return(Error("Error solving system: ", "exception"))
          /\ UNCHANGED solution
       \/ /\ Return(Error("No solution found for the system", ""))
          /\ UNCHANGED solution
       \/ \E sol0 \in SymbolValues(variables) :
            IF \E i \in 1..Len(variables) : variables[i] \notin DOMAIN sol0
            THEN /\ Return(Error("Error solving system: ", "KeyError"))
                 /\ UNCHANGED solution
            ELSE /\ solution' = [i \in 1..Len(variables) |-> sol0[variables[i]]]
                 /\ Return([solution |-> SolutionItems(variables, solution'),
                            variables |-> variables,
                            steps |-> IF Get(data, "showSteps", TRUE)
                                      THEN steps' \o [k \in 1..Len(variables) |->
                                                        "Solution for"]
                                      ELSE None])
    /\ UNCHANGED <<tool, argv, data, stdout, exitStatus>>
    /\ UNCHANGED <<equation, variables, A, b, solutions, attempt>>
    /\ UNCHANGED <<sol, harnessVars>>

\* perform_differentiation (lines 304-366)
Differentiate ==
    /\ pc = "perform_differentiation"
    /\ equation' = preprocess_equation(Get(data, "expression", <<>>))
    /\ \/ /\ Return(Error("Error in differentiation: ", "exception"))
          /\ UNCHANGED steps
       \/ /\ ParseOK(equation')
          /\ steps' = <<"Expression to differentiate", "With respect to",
                        "Order of differentiation", "Result of differentiation">>
          /\ Return([original |-> equation',
                     derivative |-> "derivative",
                     variable |-> Get(data, "variable", VarX),
                     order |-> Get(data, "order", 1),
                     steps |-> IF Get(data, "showSteps", TRUE) THEN steps' ELSE None])
    /\ UNCHANGED <<tool, argv, data, stdout, exitStatus>>
    /\ UNCHANGED <<variables, A, b, solution, solutions, attempt>>
    /\ UNCHANGED <<sol, harnessVars>>

\* perform_integration (lines 370-429)
Integrate ==
    /\ pc = "perform_integration"
    /\ equation' = preprocess_equation(Get(data, "expression", <<>>))
    /\ \/ /\ Return(Error("Error in integration: ", "exception"))
          /\ UNCHANGED steps
       \/ /\ ParseOK(equation')
          /\ steps' = <<"Expression to integrate", "With respect to",
                        "Indefinite integral (antiderivative)",
                        "Result of indefinite integration">>
          /\ Return([original |-> equation',
                     integral |-> "integral",
                     variable |-> Get(data, "variable", VarX),
                     limits |-> Get(data, "limits", None),
                     steps |-> IF Get(data, "showSteps", TRUE) THEN steps' ELSE None])
    /\ UNCHANGED <<tool, argv, data, stdout, exitStatus>>
    /\ UNCHANGED <<variables, A, b, solution, solutions, attempt>>
    /\ UNCHANGED <<sol, harnessVars>>

----
(* plotter.py *)

\* __main__ and the head of plot_functions (lines 10-11, 160-166):
\* plot_data['functions'] raises inside plot_functions' own try
PlotterMain ==
    /\ tool = "plotter"
    /\ pc = "start"
    /\ \/ /\ argv = <<>>
          /\ Fail("No plot data provided", "")
       \/ /\ argv # <<>>
          /\ argv[1].kind = "malformed"       \* json.loads raises
          /\ Fail("Failed to process plot data: ", "JSONDecodeError")
       \/ /\ argv # <<>>
          /\ argv[1].kind = "nonobject"       \* TypeError, caught in plot_functions
          /\ Return(Error("", "TypeError"))
          /\ UNCHANGED <<tool, argv, data, stdout, exitStatus>>
          /\ UNCHANGED locals
          /\ UNCHANGED <<sol, harnessVars>>
       \/ /\ argv # <<>>
          /\ argv[1].kind = "object"
          /\ "functions" \notin DOMAIN argv[1].value   \* KeyError, caught there too
          /\ data' = argv[1].value
          /\ Return(Error("", "'functions'"))
          /\ UNCHANGED <<tool, argv, stdout, exitStatus>>
          /\ UNCHANGED locals
          /\ UNCHANGED <<sol, harnessVars>>
       \/ /\ argv # <<>>
          /\ argv[1].kind = "object"
          /\ "functions" \in DOMAIN argv[1].value
          /\ data' = argv[1].value
          /\ attempt' = 1
          /\ steps' = <<>>
          /\ pc' = IF argv[1].value["functions"] = <<>> THEN "plot_save" ELSE "plot_function"
          /\ UNCHANGED <<tool, argv, result, stdout, exitStatus>>
          /\ UNCHANGED <<equation, variables, A, b, solution, solutions>>
          /\ UNCHANGED <<sol, harnessVars>>

\* one iteration of `for i, func_str in enumerate(functions)` (lines 35-112):
\* the function is evaluated and analysed, or an exception skips it
PlotFunction ==
    /\ pc = "plot_function"
    /\ LET functions == data["functions"]
           eval_func == ReplaceCaret(functions[attempt])
       IN /\ \/ UNCHANGED steps
             \/ /\ ParseOK(eval_func)
                /\ steps' = Append(steps, "Function")
          /\ pc' = IF attempt = Len(functions) THEN "plot_save" ELSE "plot_function"
    /\ attempt' = attempt + 1
    /\ UNCHANGED <<tool, argv, data, result, stdout, exitStatus>>
    /\ UNCHANGED <<equation, variables, A, b, solution, solutions>>
    /\ UNCHANGED <<sol, harnessVars>>

\* lines 115-157: the figure is saved, or an exception reaches the handler
PlotSave ==
    /\ pc = "plot_save"
    /\ \/ Return([imagePath |-> Get(data, "outputPath", "plot.png")])
       \/ Return(Error("", "exception"))
    /\ UNCHANGED <<tool, argv, data, stdout, exitStatus>>
    /\ UNCHANGED locals
    /\ UNCHANGED <<sol, harnessVars>>

----
Next ==
    \/ NumpyMain \/ SympyMain \/ PlotterMain \/ PrintResult
    \/ SolveNumericBegin \/ NewtonAttempt \/ BruteForceScan \/ BracketAttempt
    \/ SolveNumericReturn
    \/ LinearBegin \/ LinearRow \/ LinearSolve
    \/ OdeBegin \/ OdeRungeKutta \/ EulerStep \/ EulerReturn
    \/ SymbolicBegin \/ Narrate \/ SymbolicSolve
    \/ SystemBegin \/ SystemParse \/ SystemSolve
    \/ Differentiate \/ Integrate
    \/ PlotFunction \/ PlotSave

Spec == Init /\ [][Next]_vars

----
(* Properties *)

IsObject == argv # <<>> /\ argv[1].kind = "object"

\* the operation __main__ selected for the request
Operation ==
    IF tool = "numpy_solver" THEN NumpyOperation(data)
    ELSE IF tool = "sympy_solver" THEN SympyOperation(data)
    ELSE "plot_functions"

Returned == pc \in {"print", "exit"} /\ IsObject

IsErrorObject(r) == DOMAIN r = {"error"}
IsSuccessObject(r) == "steps" \in DOMAIN r /\ "error" \notin DOMAIN r

LinearExampleRequest ==
    ("type" :> "linear_system") @@ ("equations" :> <<Sys2xPlusY, SysXMinusY>>)

\* C1: the numeric linear-system solve of ["2x + y = 5", "x - y = 1"] with the
\* variables inferred returns {x: 2.0, y: 1.0}, from A = [[2, 1], [1, -1]] and
\* b = [5, 1].
C1_LinearExampleSolved ==
    (tool = "numpy_solver" /\ pc = "exit" /\ IsObject /\ data = LinearExampleRequest)
    => /\ "solution" \in DOMAIN stdout
       /\ stdout.variables = <<VarX, VarY>>
       /\ stdout.matrix = <<<<2 * Scale, 1 * Scale>>, <<1 * Scale, (-1) * Scale>>>>
       /\ stdout.constants = <<5 * Scale, 1 * Scale>>
       /\ stdout.solution = <<<<VarX, 2000000>>, <<VarY, 1000000>>>>

\* C2: in the numeric single-equation solve, equation text that is structurally
\* malformed yields a response whose only key is `error`.
C2_NumericMalformedIsError ==
    (tool = "numpy_solver" /\ Returned /\ Operation = "solve_equation_numeric"
     /\ ~ParseOK(equation))
    => IsErrorObject(result)

\* C3: in the symbolic single-equation solve, equation text that does not parse
\* yields a response whose only key is `error`: no `solutions`, no `steps`, the
\* steps collected before the failure are dropped.
C3_SymbolicMalformedIsError ==
    (tool = "sympy_solver" /\ Returned /\ Operation = "solve_symbolic_equation"
     /\ ~ParseOK(equation))
    => /\ IsErrorObject(result)
       /\ pc = "exit" => IsErrorObject(stdout)

C3_Witness ==
    /\ tool = "sympy_solver" /\ pc = "exit" /\ IsObject
    /\ Operation = "solve_symbolic_equation"
    /\ Get(data, "equation", <<>>) = EqUnbalanced
    /\ ~ParseOK(equation)
    /\ steps # <<>>
    /\ IsErrorObject(stdout)

\* C4: preprocess_equation maps "2x" to "2*x", "x^2" to "x**2" and "3(x+1)(x-2)"
\* to "3*(x+1)*(x-2)".
C4_PreprocessExamples ==
    (passes = 1 /\ ~echoed)
    => /\ prev = Ex2x => text = <<"2", "*", "x">>
       /\ prev = ExPow => text = <<"x", "*", "*", "2">>
       /\ prev = ExGroups =>
            text = <<"3", "*", "(", "x", "+", "1", ")", "*", "(", "x", "-", "2", ")">>

\* C5: preprocess_equation is idempotent, on raw text and on the expression a
\* single-equation solver echoes: one more pass leaves the text as it was.
C5_PreprocessIdempotent ==
    (passes >= 2 \/ (echoed /\ passes >= 1)) => text = prev

C5_Witness ==
    /\ echoed /\ passes >= 1
    /\ Contains(src, "=")
    /\ Len(text) > Len(src) + 6      \* a '*' was inserted on one side
    /\ text = prev

\* C6: every response of a numeric or symbolic operation is an error object with
\* `error` as its only key, or a success object with `steps` and without `error`.
C6_ResponseShape ==
    (tool \in {"numpy_solver", "sympy_solver"})
    => /\ (pc = "print" => IsErrorObject(result) \/ IsSuccessObject(result))
       /\ (pc = "exit" => IsErrorObject(stdout) \/ IsSuccessObject(stdout))

C6_Witness ==
    /\ tool = "sympy_solver" /\ pc = "exit" /\ exitStatus = 0
    /\ Operation = "solve_symbolic_system"
    /\ Get(data, "showSteps", TRUE)
    /\ IsSuccessObject(stdout)
    /\ "solution" \in DOMAIN stdout

\* C7: for each tool, a missing argument, an argument that is not JSON and an
\* argument that is JSON but no object all print an object with `error` and
\* exit with a non-zero status.
C7_BadArgumentExitsNonZero ==
    (pc = "exit" /\ ~IsObject) => ("error" \in DOMAIN stdout /\ exitStatus # 0)

\* the request lacks the field its operation requires
MissingRequiredField ==
    CASE Operation = "plot_functions" -> "functions" \notin DOMAIN data
      [] Operation \in {"solve_equation_numeric", "solve_symbolic_equation", "solve_ode"}
           -> "equation" \notin DOMAIN data
      [] Operation \in {"solve_linear_system_numeric", "solve_symbolic_system"}
           -> "equations" \notin DOMAIN data
      [] OTHER -> "expression" \notin DOMAIN data

\* the messages of the per-operation handlers that report a parse failure
ParseFailurePrefixes ==
    {"Error solving equation: ", "Error solving system: ", "Error solving ODE: ",
     "Error in differentiation: ", "Error in integration: "}

\* C8: a well-formed request without its required field is reported as an error
\* object with a non-zero exit; the exit status is zero only for a success or an
\* expression/equation parse failure.
C8_MissingFieldExitsNonZero ==
    (pc = "exit" /\ IsObject)
    => /\ MissingRequiredField => ("error" \in DOMAIN stdout /\ exitStatus # 0)
       /\ exitStatus = 0 =>
            \/ "error" \notin DOMAIN stdout
            \/ (~MissingRequiredField /\ stdout.error[1] \in ParseFailurePrefixes)

\* the variable order the request fixes: the explicit list, else the sorted inferred one
GivenVariables == Get(data, "variables", <<>>)
GivenEquations == Get(data, "equations", <<>>)

IsResolvedOrder(vs) ==
    IF GivenVariables # <<>> THEN vs = GivenVariables
    ELSE /\ Range(vs) = UNION {LetterRuns(GivenEquations[k], 1) :
                                 k \in 1..Len(GivenEquations)} \ common_funcs
         /\ \A i \in 1..Len(vs) : \A j \in 1..Len(vs) : i < j => StrLess(vs[i], vs[j])

\* C9: in both system solvers the resolved variable list is never reordered:
\* column i of every coefficient row, the i-th solved value, the i-th entry of
\* the returned `variables` and the key of the i-th entry of `solution` all
\* belong to the i-th resolved variable.
C9_VariableOrderKept ==
    /\ (tool = "numpy_solver" /\ IsObject
        /\ pc \in {"linear_rows", "linear_solve", "print", "exit"}
        /\ Operation = "solve_linear_system_numeric" /\ GivenEquations # <<>>)
       => /\ IsResolvedOrder(variables)
          /\ \A r \in 1..Len(A) : \A i \in 1..Len(variables) :
                A[r][i] = RowCoeff(GivenEquations[r], variables[i])
          /\ ("solution" \in DOMAIN result) =>
                /\ result.variables = variables
                /\ result.matrix = A
                /\ Len(result.solution) = Len(variables)
                /\ \A i \in 1..Len(variables) :
                      result.solution[i] = <<variables[i], solution[i]>>
    /\ (tool = "sympy_solver" /\ IsObject
        /\ pc \in {"system_parse", "system_solve", "print", "exit"}
        /\ Operation = "solve_symbolic_system" /\ GivenEquations # <<>>)
       => /\ IsResolvedOrder(variables)
          /\ ("solution" \in DOMAIN result) =>
                /\ result.variables = variables
                /\ Len(result.solution) = Len(variables)
                /\ \A i \in 1..Len(variables) :
                      result.solution[i] = <<variables[i], solution[i]>>

C9_Witness ==
    /\ tool = "numpy_solver" /\ pc = "exit" /\ IsObject
    /\ Operation = "solve_linear_system_numeric"
    /\ GivenVariables = <<VarY, VarX>>
    /\ GivenEquations = <<Sys2xPlusY, SysXMinusY>>
    /\ "solution" \in DOMAIN stdout
    /\ stdout.solution[1][1] = VarY
    /\ stdout.solution[1][2] # stdout.solution[2][2]
    /\ stdout.matrix[1] = <<1 * Scale, 2 * Scale>>

\* the coefficient matrix of the request, when no row raises
RequestMatrix == [r \in 1..Len(GivenEquations) |-> RowCoeffs(GivenEquations[r], variables)]

SomeRowRaises == \E r \in 1..Len(GivenEquations) : RowRaises(GivenEquations[r], variables)

\* C10: in the numeric linear-system solve a singular or non-square coefficient
\* matrix always yields "The system is singular or not uniquely solvable", a
\* parse/evaluation failure never does and yields "Error solving system:", and
\* an empty equation list yields "No equations provided" before any parsing.
C10_SingularDistinguished ==
    (tool = "numpy_solver" /\ Returned /\ Operation = "solve_linear_system_numeric")
    => IF GivenEquations = <<>>
       THEN result = Error("No equations provided", "") /\ A = <<>> /\ steps = <<>>
       ELSE IF SomeRowRaises
       THEN IsErrorObject(result) /\ result.error[1] = "Error solving system: "
       ELSE IF Len(GivenEquations) # Len(variables) \/ Det(RequestMatrix) = 0
       THEN result = Error("The system is singular or not uniquely solvable", "")
       ELSE "error" \notin DOMAIN result

\* C11: narration never alters the answer of the symbolic single-equation
\* solve: the step that narrates leaves the solve to go on with the same
\* expression and solutions, and never ends the request with an error.
C11_NarrationNeverAltersAnswer ==
    [][(tool = "sympy_solver" /\ pc = "narrate")
       => (pc' = "symbolic_solve" /\ equation' = equation /\ solutions' = solutions
           /\ result' = result)]_vars

\* the entries of a step list that carry the tag
CountSteps(list, tag) == Cardinality({k \in 1..Len(list) : list[k] = tag})

\* C12: in every success response of the single-equation solve, numeric and
\* symbolic, the `solutions` list is strictly ascending (so without duplicates).
C12_SolutionsAscending ==
    (Returned /\ Operation \in {"solve_equation_numeric", "solve_symbolic_equation"}
     /\ "solutions" \in DOMAIN result)
    => \A i \in 1..Len(result.solutions) : \A j \in 1..Len(result.solutions) :
          i < j => result.solutions[i] < result.solutions[j]

\* a numeric solve that found three roots, two of them equal after rounding
C12_Witness ==
    /\ tool = "numpy_solver" /\ pc = "exit" /\ IsObject
    /\ Operation = "solve_equation_numeric"
    /\ "solutions" \in DOMAIN stdout
    /\ CountSteps(stdout.steps, "Found solution from starting point") = 3
    /\ stdout.solutions = <<(-2) * RawPerUnit, 2 * RawPerUnit>>

\* one attempt is made by this step: a Newton seed, a bracket, a plotted function
AttemptStep(at, next) ==
    pc = at => (pc' \in next /\ result' = result /\ stdout' = stdout
                /\ exitStatus' = exitStatus)

\* C13: a failure inside one attempt (a Newton seed, a bracket of the fallback
\* scan, a plotted function) only skips that attempt: the step goes on to the
\* next attempt or to the end of the loop without touching the response, and a
\* numeric solve that has started its attempts answers with a success object.
C13_AttemptFailureSkipped ==
    /\ [][/\ AttemptStep("newton", {"newton", "brute_force", "solve_numeric_return"})
          /\ AttemptStep("brute_force", {"bracket", "solve_numeric_return"})
          /\ AttemptStep("bracket", {"bracket", "solve_numeric_return"})
          /\ AttemptStep("plot_function", {"plot_function", "plot_save"})
          /\ pc \in {"newton", "plot_function"} => attempt' = attempt + 1
          /\ pc = "bracket" => attempt' = attempt - 1]_vars
    /\ []((tool = "numpy_solver" /\ Returned /\ Operation = "solve_equation_numeric"
           /\ Len(steps) > 1)
          => IsSuccessObject(result))

\* a bracket that failed to converge, a later one that was still searched, and
\* the success object printed
C13_Witness ==
    /\ tool = "numpy_solver" /\ pc = "exit" /\ IsObject
    /\ Operation = "solve_equation_numeric"
    /\ IsSuccessObject(stdout)
    /\ \E i \in 1..Len(stdout.steps) : \E j \in 1..Len(stdout.steps) :
          /\ i < j
          /\ stdout.steps[i] = "Failed to converge in interval"
          /\ stdout.steps[j] = "Found solution in interval"

\* one side read as a sum of terms [sign][number][variable], blanks allowed
\* around each sign: is it such a sum, and the sum of the coefficients of var
\* (no number counts as 1); only the first term may come without a sign
RECURSIVE TermSum(_, _, _, _)
TermSum(s, i, var, first) ==
    LET i1 == SkipSp(s, i)
        signed == At(s, i1) \in {"+", "-"}
        i2 == IF signed THEN SkipSp(s, i1 + 1) ELSE i1
        i3 == SkipDigits(s, i2)
        i4 == SkipLetters(s, i3)
        mag == IF i3 = i2 THEN Scale ELSE DigitsVal(Slice(s, i2, i3 - 1)) * Scale
        val == IF At(s, i1) = "-" THEN 0 - mag ELSE mag
        rest == TermSum(s, i4, var, FALSE)
    IN IF i1 > Len(s) THEN [ok |-> ~first, sum |-> 0]
       ELSE IF i4 = i3 \/ (~signed /\ ~first) THEN [ok |-> FALSE, sum |-> 0]
       ELSE [ok |-> rest.ok,
             sum |-> rest.sum + (IF Slice(s, i3, i4 - 1) = var THEN val ELSE 0)]

\* the two sides of an equation as the request gives them
GivenSides(eq) ==
    IF Contains(eq, "=")
    THEN LET k == Find(eq, "=", 1)
         IN [left |-> Slice(eq, 1, k - 1), right |-> Slice(eq, k + 1, Len(eq))]
    ELSE [left |-> eq, right |-> <<"0">>]

IsPlainNumber(s) ==
    LET i == SkipSp(s, 1)
        j == SkipDigits(s, i)
    IN j > i /\ SkipSp(s, j) = Len(s) + 1

\* an equation whose left side is a sum of terms and whose right side is one
\* too, or a plain number
IsTermSumEquation(eq) ==
    LET sd == GivenSides(eq)
    IN /\ TermSum(sd.left, 1, VarX, TRUE).ok
       /\ (TermSum(sd.right, 1, VarX, TRUE).ok \/ IsPlainNumber(sd.right))

TermSumCoeff(eq, var) ==
    LET sd == GivenSides(eq)
        r == TermSum(sd.right, 1, var, TRUE)
    IN TermSum(sd.left, 1, var, TRUE).sum - (IF r.ok THEN r.sum ELSE 0)

\* C14: in the numeric linear extraction, for every equation whose sides are
\* sums of terms [sign][optional number][variable] with optional blanks around
\* the sign ("x + 2y", "3x - 2y"), the row's coefficient of each variable is
\* the sum of its terms on the left minus the sum on the right (no number
\* counts as 1), and the extraction never fails on such input.
C14_TermSumsExtracted ==
    (tool = "numpy_solver" /\ Returned /\ Operation = "solve_linear_system_numeric"
     /\ GivenEquations # <<>>
     /\ \A r \in 1..Len(GivenEquations) : IsTermSumEquation(GivenEquations[r]))
    => /\ ~(IsErrorObject(result) /\ result.error[1] = "Error solving system: ")
       /\ Len(A) = Len(GivenEquations)
       /\ \A r \in 1..Len(A) : \A i \in 1..Len(variables) :
             A[r][i] = TermSumCoeff(GivenEquations[r], variables[i])

\* C15: every value in the `solutions` list of the numeric single-equation
\* solve, from the seeded search or from the fallback sign-change scan, lies
\* within the closed domain and is a point where the expression evaluates
\* within 1e-10 of zero: a value enters the list only as the rounding of a
\* search result that is in the domain and at which f is that small.
C15_StoredValuesAreRoots ==
    [][(tool = "numpy_solver" /\ pc \in {"newton", "bracket"}
        /\ Len(solutions') > Len(solutions))
       => LET domain == Get(data, "domain", DefaultDomain)
          IN /\ solutions' = Append(solutions, RoundToPrecision(sol'.value))
             /\ domain[1] <= sol'.value /\ sol'.value <= domain[2]
             /\ sol'.is_zero]_vars

\* the entry that opens the narration of each shape
ShapeTitles ==
    {"This is a polynomial equation of degree", "This is a trigonometric equation",
     "This is a logarithmic equation", "This is an exponential equation",
     "General approach: isolating the variable"}

\* the shape the precedence polynomial, trigonometric, logarithmic,
\* exponential, generic picks for an expression
ShapeByPrecedence(e) ==
    IF e.is_polynomial THEN "This is a polynomial equation of degree"
    ELSE IF e.has_trig THEN "This is a trigonometric equation"
    ELSE IF e.has_log THEN "This is a logarithmic equation"
    ELSE IF e.has_exp THEN "This is an exponential equation"
    ELSE "General approach: isolating the variable"

\* C16: generate_equation_steps narrates exactly one equation shape per call,
\* the first that matches in the order polynomial, trigonometric, logarithmic,
\* exponential, generic isolation, and every list it returns begins with the
\* "Starting with expression" entry and ends with the "Finally, solving the
\* equation" entry.
C16_OneShapeByPrecedence ==
    (narration.steps # <<>>)
    => LET kinds == StepKinds(narration.steps)
           shapes == {k \in 1..Len(kinds) : kinds[k] \in ShapeTitles}
       IN /\ kinds[1] = "Starting with expression"
          /\ Cardinality({k \in 1..Len(kinds) : kinds[k] = "Starting with expression"}) = 1
          /\ Cardinality(shapes) = 1
          /\ \A k \in shapes : kinds[k] = ShapeByPrecedence(expr)
          /\ ~narration.raised
             => /\ kinds[Len(kinds)]
                     = "Finally, solving the equation using SymPy's solve function"
                /\ \A k \in 1..(Len(kinds) - 1) :
                      kinds[k] # "Finally, solving the equation using SymPy's solve function"

\* a logarithmic narration of an expression that also holds an exponential
C16_Witness ==
    /\ ~expr.is_polynomial /\ ~expr.has_trig /\ expr.has_log /\ expr.has_exp
    /\ expr.resimplifies
    /\ Len(narration.steps) = 5
    /\ narration.steps[2] = Step("This is a logarithmic equation")
    /\ narration.steps[4] = Step("Simplifying logarithmic expression")

\* is the narrated value (minus_b + sign * sqrt(disc)) / den a root of
\* lead * x^2 + mid * x + const?  With disc = q * q the value is the fraction
\* (minus_b + sign * q) / den; otherwise the rational and the irrational part
\* of the polynomial at the value must both vanish.
IsRootOf(lead, mid, const, r) ==
    /\ r.den # 0
    /\ r.disc >= 0
    /\ IF \E q \in 0..r.disc : q * q = r.disc
       THEN LET q == CHOOSE q \in 0..r.disc : q * q = r.disc
                num == r.minus_b + r.sign * q
            IN lead * num * num + mid * num * r.den + const * r.den * r.den = 0
       ELSE /\ lead * (r.minus_b * r.minus_b + r.disc) + mid * r.minus_b * r.den
                  + const * r.den * r.den = 0
            /\ r.sign * (2 * lead * r.minus_b + mid * r.den) = 0

\* the entries of a step list of one kind
StepsOfKind(list, kind) == {list[k] : k \in {i \in 1..Len(list) : list[i].kind = kind}}

\* C17: for a degree-2 polynomial a*x^2 + b*x + c the quadratic narration
\* reports a as the coefficient of x^2, b as the coefficient of x and c as the
\* constant term, classifies the discriminant b^2 - 4ac as positive, zero or
\* negative, and the narrated values x = (-b +- sqrt(discriminant)) / (2a) are
\* the roots of the polynomial.
C17_QuadraticNarration ==
    (narration.steps # <<>> /\ expr.is_polynomial /\ Len(expr.coeffs) = 3
     /\ ~expr.parameter)
    => LET lead == expr.coeffs[1]
           mid == expr.coeffs[2]
           const == expr.coeffs[3]
           disc == mid * mid - 4 * lead * const
           kinds == Range(StepKinds(narration.steps))
           roots == StepsOfKind(narration.steps, "x1") \cup StepsOfKind(narration.steps, "x2")
                    \cup StepsOfKind(narration.steps, "x")
       IN /\ StepsOfKind(narration.steps, "Here a, b, c")
               = {[kind |-> "Here a, b, c", a |-> lead, b |-> mid, c |-> const]}
          /\ StepsOfKind(narration.steps, "Calculate the discriminant")
               = {[kind |-> "Calculate the discriminant", value |-> disc]}
          /\ ("Discriminant > 0, so there are two real solutions" \in kinds) <=> disc > 0
          /\ ("Discriminant = 0, so there is one repeated solution" \in kinds) <=> disc = 0
          /\ ("Discriminant < 0, so there are two complex solutions" \in kinds) <=> disc < 0
          /\ Cardinality(roots) = (IF disc > 0 THEN 2 ELSE IF disc = 0 THEN 1 ELSE 0)
          /\ \A r \in roots : IsRootOf(lead, mid, const, r.x)

\* y[i] = y[i-1] + h * f(x[i-1], y[i-1]) for some value of the derivative, the
\* samples counted in units of 1/(n - 1) so that h is range / (n - 1)
IsEulerStep(prior, next, range, eq) ==
    \E slope \in Slopes(eq) :
        next = (IF prior.nan \/ slope.nan THEN NaN ELSE Num(prior.v + range * slope.v))

\* C18: for every ODE request with method "Euler" and numPoints = n >= 1 the
\* response is a success whose `x` and `y` lists each have exactly n entries,
\* with y[0] = initialCondition and y[i] = y[i-1] + h * f(x[i-1], y[i-1]),
\* h = (xEnd - x0) / (n - 1), for every i in 1..n-1; a method other than
\* "RK45" or "Euler" yields an error object.
C18_EulerSamples ==
    (tool = "numpy_solver" /\ Returned /\ Operation = "solve_ode")
    => LET method == Get(data, "method", "RK45")
           n == Get(data, "numPoints", DefaultNumPoints)
           range == Get(data, "xEnd", DefaultXEnd) - Get(data, "x0", 0)
       IN /\ (method = "Euler" /\ n >= 1)
             => /\ IsSuccessObject(result)
                /\ result.success = TRUE
                /\ result.method = "Euler"
                /\ result.x = n
                /\ Len(result.y) = n
                /\ result.y[1] = Num(Get(data, "initialCondition", 0) * (n - 1))
                /\ \A i \in 2..n :
                      IsEulerStep(result.y[i - 1], result.y[i], range, equation)
          /\ (method \notin {"RK45", "Euler"}) => IsErrorObject(result)

\* C19: during Euler stepping a failure to evaluate the derivative at step i
\* does not abort the solve: the derivative is NaN, y[i] becomes NaN, every
\* later sample is NaN too, all earlier samples are unaffected, and the
\* response is still the success object with all numPoints samples.
C19_EulerNaNPropagates ==
    /\ [][(tool = "numpy_solver" /\ pc = "euler")
          => /\ pc' \in {"euler", "euler_return"}
             /\ result' = result
             /\ Len(solution') = Len(solution) + 1
             /\ SubSeq(solution', 1, Len(solution)) = solution
             /\ solution[Len(solution)].nan => solution'[Len(solution')].nan]_vars
    /\ []((tool = "numpy_solver" /\ Returned /\ Operation = "solve_ode"
           /\ Get(data, "method", "RK45") = "Euler"
           /\ Get(data, "numPoints", DefaultNumPoints) >= 2)
          => LET n == Get(data, "numPoints", DefaultNumPoints)
             IN /\ IsSuccessObject(result)
                /\ result.x = n
                /\ Len(result.y) = n
                /\ result.y[1] = Num(Get(data, "initialCondition", 0) * (n - 1))
                /\ \A i \in 1..n : \A j \in i..n : result.y[i].nan => result.y[j].nan
                /\ ~ParseOK(equation) => \A i \in 2..n : result.y[i].nan)

\* an Euler solve whose derivative failed at the last step only
C19_Witness ==
    /\ tool = "numpy_solver" /\ pc = "exit" /\ IsObject
    /\ Operation = "solve_ode"
    /\ Get(data, "method", "RK45") = "Euler"
    /\ Get(data, "numPoints", DefaultNumPoints) = 3
    /\ "y" \in DOMAIN stdout
    /\ stdout.success = TRUE
    /\ Len(stdout.y) = 3
    /\ stdout.y[1] = Num(2)
    /\ stdout.y[2] = Num(2 + DefaultXEnd)
    /\ stdout.y[3] = NaN

\* the operation a position of the script belongs to
Running(p) ==
    CASE p \in {"solve_equation_numeric", "newton", "brute_force", "bracket",
                "solve_numeric_return"} -> "solve_equation_numeric"
      [] p \in {"solve_linear_system_numeric", "linear_rows", "linear_solve"}
            -> "solve_linear_system_numeric"
      [] p \in {"solve_ode", "rk45", "euler", "euler_return"} -> "solve_ode"
      [] p \in {"solve_symbolic_equation", "narrate", "symbolic_solve"}
            -> "solve_symbolic_equation"
      [] p \in {"solve_symbolic_system", "system_parse", "system_solve"}
            -> "solve_symbolic_system"
      [] p = "perform_differentiation" -> "perform_differentiation"
      [] p = "perform_integration" -> "perform_integration"
      [] p \in {"plot_functions", "plot_function", "plot_save"} -> "plot_functions"
      [] OTHER -> "none"

\* the operation each tool runs for a value of `type` ("" when absent)
SelectedByType(t, type) ==
    IF t = "numpy_solver"
    THEN CASE type = "linear_system" -> "solve_linear_system_numeric"
           [] type = "ode" -> "solve_ode"
           [] OTHER -> "solve_equation_numeric"
    ELSE CASE type = "system" -> "solve_symbolic_system"
           [] type = "differentiate" -> "perform_differentiation"
           [] type = "integrate" -> "perform_integration"
           [] OTHER -> "solve_symbolic_equation"

\* C20: each invocation runs exactly one operation, selected by the request's
\* `type`: in the numeric tool `linear_system` selects the linear-system solve,
\* `ode` the ODE solve and every other or absent value the single-equation
\* solve; in the symbolic tool `system`, `differentiate` and `integrate`
\* select their operations and every other or absent value the single-equation
\* solve; neither tool recognizes the other's type names.
C20_OneOperationByType ==
    [][(tool \in {"numpy_solver", "sympy_solver"})
       => /\ (pc = "start" /\ pc' # "exit")
             => pc' = SelectedByType(tool, Get(data', "type", ""))
          /\ (Running(pc) # "none")
             => (Running(pc') = Running(pc) \/ pc' = "print")
          /\ (pc \in {"print", "exit"}) => (pc' \in {"print", "exit"})]_vars

\* the symbolic tool answered a request of type "linear_system" with its
\* single-equation solve
C20_Witness ==
    /\ tool = "sympy_solver" /\ pc = "exit" /\ IsObject
    /\ Get(data, "type", "") = "linear_system"
    /\ GivenEquations = <<Sys2xPlusY, SysXMinusY>>
    /\ IsErrorObject(stdout)
    /\ stdout.error[1] = "Error solving equation: "

====
